---- MODULE Spec2Model ----
(***************************************************************************)
(* A model of dim.py: the DOM builder (DOMBuilder, parse_html), the node   *)
(* navigation primitives (Node) and the selector matcher (Selector,        *)
(* SelectorGroup).                                                         *)
(*                                                                         *)
(* Nodes live in an arena `nodes`; a node's identity is its index in the   *)
(* arena (Python object identity), 0 stands for None.                      *)
(***************************************************************************)
EXTENDS Naturals, Integers, Sequences, FiniteSets, TLC

\* ------------------------------------------------------------------ bounds

\* Largest number of nodes (elements and text nodes) one build creates.
MaxNodes == 4

\* Longest attribute value of a queried element, and longest value an
\* attribute selector asks for.
MaxValueLen == 3

MaxRequiredLen == 2

\* Largest number of tokens a selector text is put together from.
MaxTokens == 4

\* ------------------------------------------------------------------ helpers

None == 0

Last(s) == s[Len(s)]

Front(s) == SubSeq(s, 1, Len(s) - 1)

RECURSIVE Reverse(_)
Reverse(s) == IF s = <<>> THEN <<>> ELSE Append(Reverse(Tail(s)), Head(s))

Range(s) == {s[i] : i \in 1..Len(s)}

\* ------------------------------------------------------------------ tags

\* str.lower() on the tag and attribute names the model carries.
Lower(t) ==
    CASE t = "A" -> "a"
      [] t = "ID" -> "id"
      [] t = "CLASS" -> "class"
      [] t = "ATTR" -> "attr"
      [] t = "B" -> "b"
      [] t = "C" -> "c"
      [] t = "BR" -> "br"
      [] t = "Br" -> "br"
      [] t = "IMG" -> "img"
      [] OTHER -> t

VoidTags ==
    {"area", "base", "br", "col", "embed", "hr", "img", "input", "link",
     "meta", "param", "source", "track", "wbr"}

_tag_is_void(tag) == Lower(tag) \in VoidTags

\* ------------------------------------------------------------------ nodes

\* OrderedDict(pairs): a later pair of the same name replaces the value of
\* the earlier one and keeps its place.
RECURSIVE OrderedDict(_)
OrderedDict(pairs) ==
    IF pairs = <<>>
    THEN <<>>
    ELSE LET d    == OrderedDict(Front(pairs))
             name == Last(pairs)[1]
             val  == Last(pairs)[2]
         IN  IF \E i \in 1..Len(d) : d[i][1] = name
             THEN [i \in 1..Len(d) |->
                      IF d[i][1] = name THEN <<name, val>> ELSE d[i]]
             ELSE Append(d, <<name, val>>)

\* ElementNode(tag, attrs): the tag and the attribute names lower-cased;
\* _partial is set by the caller.
ElementNode(tag, attrs) ==
    [kind |-> "element", tag |-> Lower(tag),
     attrs |-> OrderedDict([i \in 1..Len(attrs) |->
                              <<Lower(attrs[i][1]), attrs[i][2]>>]),
     text |-> "",
     parent |-> None, children |-> <<>>, partial |-> FALSE]

\* TextNode(text): no tag (the empty string stands for None), no attributes.
TextNode(text) ==
    [kind |-> "text", tag |-> "", attrs |-> <<>>, text |-> text,
     parent |-> None, children |-> <<>>, partial |-> FALSE]

\* ------------------------------------------------------------------ state

VARIABLES
    nodes,    \* the arena: every node created so far
    stack,    \* DOMBuilder._stack, node ids, bottom first
    status,   \* "building", "error" (DOMBuilderException raised), "done"
    why,      \* the reason of the exception, "" when none
    tree,     \* the node parse_html returned, None before
    ev,       \* the last builder event handled
    q         \* the last query on the returned tree: its operands and result

vars == <<nodes, stack, status, why, tree, ev, q>>

\* ------------------------------------------------------------------ builder

\* The result of a handler: the new arena and stack, and the reason of the
\* DOMBuilderException it raised ("" when it returned normally).
Outcome(ns, st, w) == [nodes |-> ns, stack |-> st, why |-> w]

\* The number of closed nodes on top of the stack: the pops of the while loop.
RECURSIVE ClosedOnTop(_, _)
ClosedOnTop(ns, st) ==
    IF st # <<>> /\ ~ns[Last(st)].partial
    THEN 1 + ClosedOnTop(ns, Front(st))
    ELSE 0

\* Mutant: the tag is compared as it was given, without lower-casing.
HandleEndTagCaseSensitive(ns, st, tag) ==
    LET k        == ClosedOnTop(ns, st)
        rest     == SubSeq(st, 1, Len(st) - k)
        children == Reverse(SubSeq(st, Len(st) - k + 1, Len(st)))
        parent   == Last(rest)
    IN  IF rest = <<>>
        THEN Outcome(ns, rest, "extra end tag")
        ELSE IF ns[parent].tag # tag
        THEN Outcome(ns, rest, "expecting end tag")
        ELSE Outcome(
                 [i \in 1..Len(ns) |->
                     IF i = parent
                     THEN [ns[i] EXCEPT !.children = Reverse(children),
                                        !.partial = FALSE]
                     ELSE IF i \in Range(children)
                     THEN [ns[i] EXCEPT !.parent = parent]
                     ELSE ns[i]],
                 rest, "")

\* Mutant: the popped nodes become children but their parent is not set.
HandleEndTagNoParent(ns, st, tag) ==
    LET k        == ClosedOnTop(ns, st)
        rest     == SubSeq(st, 1, Len(st) - k)
        children == Reverse(SubSeq(st, Len(st) - k + 1, Len(st)))
        parent   == Last(rest)
    IN  IF rest = <<>>
        THEN Outcome(ns, rest, "extra end tag")
        ELSE IF ns[parent].tag # Lower(tag)
        THEN Outcome(ns, rest, "expecting end tag")
        ELSE Outcome(
                 [i \in 1..Len(ns) |->
                     IF i = parent
                     THEN [ns[i] EXCEPT !.children = Reverse(children),
                                        !.partial = FALSE]
                     ELSE ns[i]],
                 rest, "")

\* Mutant: the popped nodes become children in the order they were popped.
HandleEndTagPopOrder(ns, st, tag) ==
    LET k        == ClosedOnTop(ns, st)
        rest     == SubSeq(st, 1, Len(st) - k)
        children == Reverse(SubSeq(st, Len(st) - k + 1, Len(st)))
        parent   == Last(rest)
    IN  IF rest = <<>>
        THEN Outcome(ns, rest, "extra end tag")
        ELSE IF ns[parent].tag # Lower(tag)
        THEN Outcome(ns, rest, "expecting end tag")
        ELSE Outcome(
                 [i \in 1..Len(ns) |->
                     IF i = parent
                     THEN [ns[i] EXCEPT !.children = children,
                                        !.partial = FALSE]
                     ELSE IF i \in Range(children)
                     THEN [ns[i] EXCEPT !.parent = parent]
                     ELSE ns[i]],
                 rest, "")

\* DOMBuilder.handle_endtag. `children` is in pop order (top of stack first);
\* the pops are kept when the handler raises.
HandleEndTag(ns, st, tag) ==
    LET k        == ClosedOnTop(ns, st)
        rest     == SubSeq(st, 1, Len(st) - k)
        children == Reverse(SubSeq(st, Len(st) - k + 1, Len(st)))
        parent   == Last(rest)
    IN  IF rest = <<>>
        THEN Outcome(ns, rest, "extra end tag")
        ELSE IF ns[parent].tag # Lower(tag)
        THEN Outcome(ns, rest, "expecting end tag")
        ELSE Outcome(
                 [i \in 1..Len(ns) |->
                     IF i = parent
                     THEN [ns[i] EXCEPT !.children = Reverse(children),
                                        !.partial = FALSE]
                     ELSE IF i \in Range(children)
                     THEN [ns[i] EXCEPT !.parent = parent]
                     ELSE ns[i]],
                 rest, "")

\* DOMBuilder.handle_starttag.
HandleStartTag(ns, st, tag, attrs) ==
    LET node == [ElementNode(tag, attrs) EXCEPT !.partial = TRUE]
        ns1  == Append(ns, node)
        st1  == Append(st, Len(ns) + 1)
    IN  IF _tag_is_void(tag)
        THEN HandleEndTag(ns1, st1, tag)
        ELSE Outcome(ns1, st1, "")

\* Mutant: HTMLParser's default, handle_starttag followed by handle_endtag.
HandleStartEndTagDefault(ns, st, tag, attrs) ==
    LET o == HandleStartTag(ns, st, tag, attrs)
    IN  IF o.why # "" THEN o ELSE HandleEndTag(o.nodes, o.stack, tag)

\* Mutant: a self-closing tag pushes its element already closed.
HandleStartEndTagClosed(ns, st, tag, attrs) ==
    Outcome(Append(ns, ElementNode(tag, attrs)), Append(st, Len(ns) + 1), "")

\* DOMBuilder.handle_startendtag.
HandleStartEndTag(ns, st, tag, attrs) == HandleStartTag(ns, st, tag, attrs)

\* Mutant: text is pushed on an empty stack as well.
HandleDataOnEmptyStack(ns, st, text) ==
    Outcome(Append(ns, TextNode(text)), Append(st, Len(ns) + 1), "")

\* Mutant: text is kept only while an element is open.
HandleDataNeedsOpenElement(ns, st, text) ==
    IF \A i \in 1..Len(st) : ~ns[st[i]].partial
    THEN Outcome(ns, st, "")
    ELSE Outcome(Append(ns, TextNode(text)), Append(st, Len(ns) + 1), "")

\* DOMBuilder.handle_data.
HandleData(ns, st, text) ==
    IF st = <<>>
    THEN Outcome(ns, st, "")
    ELSE Outcome(Append(ns, TextNode(text)), Append(st, Len(ns) + 1), "")

\* Mutant: the root is returned whether or not it was closed.
RootUnchecked(ns, st) ==
    IF st = <<>>
    THEN [node |-> None, why |-> "no root tag"]
    ELSE [node |-> st[1], why |-> ""]

\* Mutant: the node on top of the stack is returned.
RootTopOfStack(ns, st) ==
    IF st = <<>>
    THEN [node |-> None, why |-> "no root tag"]
    ELSE IF ns[st[1]].partial
    THEN [node |-> None, why |-> "root tag not closed yet"]
    ELSE [node |-> Last(st), why |-> ""]

\* DOMBuilder.root.
Root(ns, st) ==
    IF st = <<>>
    THEN [node |-> None, why |-> "no root tag"]
    ELSE IF ns[st[1]].partial
    THEN [node |-> None, why |-> "root tag not closed yet"]
    ELSE [node |-> st[1], why |-> ""]

\* ------------------------------------------------------------------ navigation

\* Mutant: text nodes compare by content, as plain strings do.
IndexByContent(children, n) ==
    CHOOSE i \in 1..Len(children) :
        /\ \/ children[i] = n
           \/ /\ nodes[children[i]].kind = "text"
              /\ nodes[n].kind = "text"
              /\ nodes[children[i]].text = nodes[n].text
        /\ \A j \in 1..(i - 1) :
               /\ children[j] # n
               /\ ~(/\ nodes[children[j]].kind = "text"
                    /\ nodes[n].kind = "text"
                    /\ nodes[children[j]].text = nodes[n].text)

\* list.index: the position of the first entry equal to n. Nodes compare by
\* identity (object.__eq__, TextNode.__eq__), so this is n's own position.
Index(children, n) ==
    CHOOSE i \in 1..Len(children) :
        /\ children[i] = n
        /\ \A j \in 1..(i - 1) : children[j] # n

\* bool(node): an element is always true, a text node is a str and is true
\* iff it is not empty; None is false.
Truthy(n) ==
    /\ n # None
    /\ (nodes[n].kind = "text" => nodes[n].text # "")

\* Node.next_siblings.
next_siblings(n) ==
    LET parent == nodes[n].parent
    IN  IF ~Truthy(parent)
        THEN <<>>
        ELSE LET ch == nodes[parent].children
             IN  SubSeq(ch, Index(ch, n) + 1, Len(ch))

\* Node.previous_siblings: nearest sibling first.
previous_siblings(n) ==
    LET parent == nodes[n].parent
    IN  IF ~Truthy(parent)
        THEN <<>>
        ELSE LET ch == nodes[parent].children
             IN  Reverse(SubSeq(ch, 1, Index(ch, n) - 1))

\* The first element node of a sequence of nodes, None when it holds none.
RECURSIVE FirstElement(_)
FirstElement(s) ==
    IF s = <<>>
    THEN None
    ELSE IF nodes[Head(s)].kind = "element"
    THEN Head(s)
    ELSE FirstElement(Tail(s))

\* Mutant: the adjacent sibling is taken when it is an element, text nodes
\* are not skipped.
PreviousElementSiblingAdjacent(n) ==
    LET s == previous_siblings(n)
    IN  IF s # <<>> /\ nodes[Head(s)].kind = "element" THEN Head(s) ELSE None

\* Node.previous_element_sibling.
previous_element_sibling(n) == FirstElement(previous_siblings(n))

\* The loop of Node.ancestors from `ancestor` on: the nodes yielded and
\* whether the RuntimeError was raised.
RECURSIVE AncestorsFrom(_, _)
AncestorsFrom(ancestor, root) ==
    IF ancestor = root
    THEN [yield |-> IF Truthy(root) THEN <<root>> ELSE <<>>, raised |-> FALSE]
    ELSE IF ancestor = None
    THEN [yield |-> <<>>, raised |-> TRUE]
    ELSE LET r == AncestorsFrom(nodes[ancestor].parent, root)
         IN  [yield |-> <<ancestor>> \o r.yield, raised |-> r.raised]

\* Mutant: a root that is not found ends the walk at the top without an
\* error.
AncestorsNoError(n, root) ==
    IF n = root
    THEN [yield |-> <<>>, raised |-> FALSE]
    ELSE [yield |-> AncestorsFrom(nodes[n].parent, root).yield, raised |-> FALSE]

\* Mutant: the walk stops just before root, which is not yielded.
AncestorsExcludingRoot(n, root) ==
    IF n = root
    THEN [yield |-> <<>>, raised |-> FALSE]
    ELSE LET r == AncestorsFrom(nodes[n].parent, root)
         IN  IF r.raised \/ root = None
             THEN r
             ELSE [yield |-> Front(r.yield), raised |-> FALSE]

\* Node.ancestors(root=root).
ancestors(n, root) ==
    IF n = root
    THEN [yield |-> <<>>, raised |-> FALSE]
    ELSE AncestorsFrom(nodes[n].parent, root)

\* The concatenation of a sequence of sequences.
RECURSIVE Flatten(_)
Flatten(ss) == IF ss = <<>> THEN <<>> ELSE Head(ss) \o Flatten(Tail(ss))

\* Mutant: a node is yielded after its own subtree.
RECURSIVE DescendantsPostOrder(_)
DescendantsPostOrder(n) ==
    Flatten([i \in 1..Len(nodes[n].children) |->
                DescendantsPostOrder(nodes[n].children[i])
                    \o <<nodes[n].children[i]>>])

\* Node.descendants: each child, followed by its own descendants.
RECURSIVE descendants(_)
descendants(n) ==
    Flatten([i \in 1..Len(nodes[n].children) |->
                <<nodes[n].children[i]>>
                    \o descendants(nodes[n].children[i])])

\* ------------------------------------------------------------------ attributes

\* Attribute values, class names and ids are sequences of characters; these
\* are the whitespace characters str.split() divides the model's values at.
Whitespace == {" ", "\t", "\n", "\r", "\f"}

\* The value None, which html.parser passes for an attribute written without
\* a value (`<a disabled>`): a value that is no sequence of characters.
NoValue == <<"None">>

\* name in node.attrs
HasAttr(n, name) == \E i \in 1..Len(nodes[n].attrs) : nodes[n].attrs[i][1] = name

\* node.attrs[name], for a name the node has.
GetAttr(n, name) ==
    nodes[n].attrs[CHOOSE i \in 1..Len(nodes[n].attrs) :
                       nodes[n].attrs[i][1] = name][2]

\* str.split(): the maximal runs of characters that are not whitespace.
RECURSIVE Split(_)
Split(v) ==
    IF v = <<>>
    THEN <<>>
    ELSE IF Head(v) \in Whitespace
    THEN Split(Tail(v))
    ELSE LET k == CHOOSE k \in 1..Len(v) :
                      /\ \A j \in 1..k : v[j] \notin Whitespace
                      /\ k = Len(v) \/ v[k + 1] \in Whitespace
         IN  <<SubSeq(v, 1, k)>> \o Split(SubSeq(v, k + 1, Len(v)))

\* Node.classes raises AttributeError when the attribute `class` has the
\* value None, which has no split().
ClassesRaises(n) == HasAttr(n, "class") /\ GetAttr(n, "class") = NoValue

\* Node.classes, when it does not raise.
classes(n) == IF HasAttr(n, "class") THEN Split(GetAttr(n, "class")) ELSE <<>>

\* str.startswith, str.endswith and the substring test `in`.
StartsWith(v, r) == Len(r) <= Len(v) /\ SubSeq(v, 1, Len(r)) = r

EndsWith(v, r) == Len(r) <= Len(v) /\ SubSeq(v, Len(v) - Len(r) + 1, Len(v)) = r

Contains(v, r) == \E i \in 0..(Len(v) - Len(r)) : SubSeq(v, i + 1, i + Len(r)) = r

\* AttributeSelector(attr, val, type): the name lower-cased. The value <<>>
\* of a BARE selector stands for None.
AttributeSelector(attr, val, type) ==
    [attr |-> Lower(attr), val |-> val, type |-> type]

\* AttributeSelector.matches. An attribute selector is [attr, val, type].
\* node.attrs.get(attr) is None for a name the node has not, and for one it
\* has with the value None.
AttributeSelectorMatches(a, n) ==
    IF ~HasAttr(n, a.attr) \/ GetAttr(n, a.attr) = NoValue
    THEN FALSE
    ELSE LET val == GetAttr(n, a.attr)
         IN  CASE a.type = "BARE"     -> TRUE
               [] a.type = "EQUAL"    -> val = a.val
               [] a.type = "TILDE"    -> a.val \in Range(Split(val))
               [] a.type = "PIPE"     -> val = a.val \/ StartsWith(val, a.val \o <<"-">>)
               [] a.type = "CARET"    -> a.val # <<>> /\ StartsWith(val, a.val)
               [] a.type = "DOLLAR"   -> a.val # <<>> /\ EndsWith(val, a.val)
               [] a.type = "ASTERISK" -> a.val # <<>> /\ Contains(val, a.val)

\* ------------------------------------------------------------------ selectors

\* A selector is the cons list of its sequences of simple selectors, the
\* rightmost sequence first: sel[1] is `self`, Tail(sel) is self.previous
\* (<<>> for None). A sequence is [tag, classes, id, attrs, combinator]; the
\* tag "" and the id <<>> stand for None.
Sequence(tag, combinator) ==
    [tag |-> Lower(tag), classes |-> <<>>, id |-> <<>>, attrs |-> <<>>,
     combinator |-> combinator]

\* The first part of Selector.matches raises AttributeError: the tag and the
\* ID are as required and node.classes is read on a node whose attribute
\* `class` has the value None.
SimpleSelectorsRaise(seq, n) ==
    /\ seq.tag # "" => (nodes[n].tag # "" /\ nodes[n].tag = seq.tag)
    /\ seq.id # <<>> => (HasAttr(n, "id") /\ GetAttr(n, "id") = seq.id)
    /\ seq.classes # <<>>
    /\ ClassesRaises(n)

\* Mutant: the simple selectors of a sequence are met by elements only.
SimpleSelectorsMatchElementsOnly(seq, n) ==
    /\ nodes[n].kind = "element"
    /\ seq.tag # "" => (nodes[n].tag # "" /\ nodes[n].tag = seq.tag)
    /\ seq.id # <<>> => (HasAttr(n, "id") /\ GetAttr(n, "id") = seq.id)
    /\ seq.classes # <<>> => ~ClassesRaises(n)
    /\ \A i \in 1..Len(seq.classes) : seq.classes[i] \in Range(classes(n))
    /\ \A i \in 1..Len(seq.attrs) : AttributeSelectorMatches(seq.attrs[i], n)

\* The simple selectors of one sequence, tried on a node (the first part of
\* Selector.matches): the checks of the tag, the ID, the classes and the
\* attribute selectors are all passed, none raising.
SimpleSelectorsMatch(seq, n) ==
    /\ seq.tag # "" => (nodes[n].tag # "" /\ nodes[n].tag = seq.tag)
    /\ seq.id # <<>> => (HasAttr(n, "id") /\ GetAttr(n, "id") = seq.id)
    /\ seq.classes # <<>> => ~ClassesRaises(n)
    /\ \A i \in 1..Len(seq.classes) : seq.classes[i] \in Range(classes(n))
    /\ \A i \in 1..Len(seq.attrs) : AttributeSelectorMatches(seq.attrs[i], n)

\* The elements of a sequence of nodes, in its order.
RECURSIVE ElementsOf(_)
ElementsOf(s) ==
    IF s = <<>>
    THEN <<>>
    ELSE (IF nodes[Head(s)].kind = "element" THEN <<Head(s)>> ELSE <<>>)
             \o ElementsOf(Tail(s))

\* A sequence of nodes, each with the root that is passed on with it.
WithRoot(s, root) == [i \in 1..Len(s) |-> <<s[i], root>>]

\* Mutant: the child combinator accepts any ancestor, like the descendant
\* combinator.
CandidatesChildAnyAncestor(n, combinator, root) ==
    CASE combinator = "DESCENDANT" ->
             WithRoot(ancestors(n, None).yield, root)
      [] combinator = "CHILD" ->
             WithRoot(ancestors(n, None).yield, None)
      [] combinator = "NEXT_SIBLING" ->
             LET sibling == previous_element_sibling(n)
             IN  IF sibling = None THEN <<>> ELSE <<<<sibling, None>>>>
      [] combinator = "SUBSEQUENT_SIBLING" ->
             WithRoot(ElementsOf(previous_siblings(n)), root)

\* Mutant: the subsequent-sibling combinator looks at the nearest preceding
\* element sibling only, like the next-sibling combinator.
CandidatesSubsequentNearest(n, combinator, root) ==
    CASE combinator = "DESCENDANT" ->
             WithRoot(ancestors(n, None).yield, root)
      [] combinator = "CHILD" ->
             IF n = root \/ nodes[n].parent = None
             THEN <<>>
             ELSE <<<<nodes[n].parent, None>>>>
      [] combinator = "NEXT_SIBLING" ->
             LET sibling == previous_element_sibling(n)
             IN  IF sibling = None THEN <<>> ELSE <<<<sibling, None>>>>
      [] combinator = "SUBSEQUENT_SIBLING" ->
             LET sibling == previous_element_sibling(n)
             IN  IF sibling = None THEN <<>> ELSE <<<<sibling, root>>>>

\* The combinator branches of Selector.matches: the nodes the previous
\* sequence is tried on, in the order they are tried, each with the root
\* that is passed on to it.
Candidates(n, combinator, root) ==
    CASE combinator = "DESCENDANT" ->
             WithRoot(ancestors(n, None).yield, root)
      [] combinator = "CHILD" ->
             IF n = root \/ nodes[n].parent = None
             THEN <<>>
             ELSE <<<<nodes[n].parent, None>>>>
      [] combinator = "NEXT_SIBLING" ->
             LET sibling == previous_element_sibling(n)
             IN  IF sibling = None THEN <<>> ELSE <<<<sibling, None>>>>
      [] combinator = "SUBSEQUENT_SIBLING" ->
             WithRoot(ElementsOf(previous_siblings(n)), root)

\* Selector.matches(node, root=root) returns True, and it raises
\* AttributeError; it returns False otherwise. `any` stops at the first
\* candidate the previous sequence matches, so a candidate on which it
\* raises counts only when none before it matched, and the other way round.
RECURSIVE SelectorMatches(_, _, _)
RECURSIVE SelectorRaises(_, _, _)
SelectorMatches(sel, n, root) ==
    IF ~SimpleSelectorsMatch(sel[1], n)
    THEN FALSE
    ELSE IF Tail(sel) = <<>>
    THEN TRUE
    ELSE LET C == Candidates(n, sel[1].combinator, root)
         IN  \E i \in 1..Len(C) :
                 /\ SelectorMatches(Tail(sel), C[i][1], C[i][2])
                 /\ \A j \in 1..(i - 1) :
                        ~SelectorRaises(Tail(sel), C[j][1], C[j][2])

SelectorRaises(sel, n, root) ==
    IF SimpleSelectorsRaise(sel[1], n)
    THEN TRUE
    ELSE IF ~SimpleSelectorsMatch(sel[1], n) \/ Tail(sel) = <<>>
    THEN FALSE
    ELSE LET C == Candidates(n, sel[1].combinator, root)
         IN  \E i \in 1..Len(C) :
                 /\ SelectorRaises(Tail(sel), C[i][1], C[i][2])
                 /\ \A j \in 1..(i - 1) :
                        ~SelectorMatches(Tail(sel), C[j][1], C[j][2])

\* Mutant: the group matches only when all of its selectors match.
SelectorGroupMatchesAll(group, n, root) ==
    \A i \in 1..Len(group) : SelectorMatches(group[i], n, root)

\* SelectorGroup.matches(node, root=root) returns True: `any` over the
\* selectors in their order. A group is the sequence of its selectors.
SelectorGroupMatches(group, n, root) ==
    \E i \in 1..Len(group) :
        /\ SelectorMatches(group[i], n, root)
        /\ \A j \in 1..(i - 1) : ~SelectorRaises(group[j], n, root)

\* SelectorGroup.matches(node, root=root) raises AttributeError.
SelectorGroupRaises(group, n, root) ==
    \E i \in 1..Len(group) :
        /\ SelectorRaises(group[i], n, root)
        /\ \A j \in 1..(i - 1) : ~SelectorMatches(group[j], n, root)

\* Mutant: without a root the node itself is taken as the root.
MatchedByDefaultRootSelf(n, group, root) ==
    SelectorGroupMatches(group, n, IF root = None THEN n ELSE root)

\* Node.matched_by(selector, root=root), the selector already normalized.
matched_by(n, group, root) == SelectorGroupMatches(group, n, root)

\* Node.matched_by(selector, root=root) raises AttributeError.
MatchedByRaises(n, group, root) == SelectorGroupRaises(group, n, root)

\* The loop of Node._select_all over the nodes s: those the group matches
\* with the given root, in the order of s.
RECURSIVE Matching(_, _, _)
Matching(s, group, root) ==
    IF s = <<>>
    THEN <<>>
    ELSE (IF SelectorGroupMatches(group, Head(s), root)
          THEN <<Head(s)>>
          ELSE <<>>) \o Matching(Tail(s), group, root)

\* Node.select_all raises AttributeError: list() runs _select_all to its
\* end, so it raises when the group raises on any descendant.
SelectAllRaises(n, group) ==
    \E d \in Range(descendants(n)) : SelectorGroupRaises(group, d, n)

\* Node._select_all / Node.select_all, the selector already normalized,
\* when it does not raise.
select_all(n, group) == Matching(descendants(n), group, n)

\* Node.select raises AttributeError: the group raises on a descendant that
\* comes before the first one it matches.
SelectRaises(n, group) ==
    LET D == descendants(n)
    IN  \E i \in 1..Len(D) :
            /\ SelectorGroupRaises(group, D[i], n)
            /\ \A j \in 1..(i - 1) : ~SelectorGroupMatches(group, D[j], n)

\* Node.select: the first node _select_all yields, or None, when it does
\* not raise.
select(n, group) ==
    LET found == select_all(n, group)
    IN  IF found = <<>> THEN None ELSE Head(found)

\* ------------------------------------------------------------------ parser

\* A selector text is the sequence of its characters; a cursor i has i
\* characters before it, so the character at the cursor is s[i + 1].

\* [\w-] in ASCII mode.
WordChars ==
    {"a", "b", "c", "d", "e", "f", "g", "h", "i", "j", "k", "l", "m",
     "n", "o", "p", "q", "r", "s", "t", "u", "v", "w", "x", "y", "z",
     "A", "B", "C", "D", "E", "F", "G", "H", "I", "J", "K", "L", "M",
     "N", "O", "P", "Q", "R", "S", "T", "U", "V", "W", "X", "Y", "Z",
     "0", "1", "2", "3", "4", "5", "6", "7", "8", "9", "_", "-"}

\* The result of a regex match that failed (re.match returned None).
NoMatch == 0 - 1

\* The character at the cursor, "" at the end of the text.
At(s, i) == IF i >= 0 /\ i < Len(s) THEN s[i + 1] ELSE ""

\* The end of the longest run of characters of `chars` from the cursor on
\* (a greedy `[chars]*`).
RECURSIVE RunEnd(_, _, _)
RunEnd(s, i, chars) ==
    IF i < Len(s) /\ s[i + 1] \in chars THEN RunEnd(s, i + 1, chars) ELSE i

\* str.lower() on one character.
LowerChar(c) ==
    CASE c = "A" -> "a" [] c = "B" -> "b" [] c = "C" -> "c" [] c = "D" -> "d"
      [] c = "E" -> "e" [] c = "F" -> "f" [] c = "G" -> "g" [] c = "H" -> "h"
      [] c = "I" -> "i" [] c = "J" -> "j" [] c = "K" -> "k" [] c = "L" -> "l"
      [] c = "M" -> "m" [] c = "N" -> "n" [] c = "O" -> "o" [] c = "P" -> "p"
      [] c = "Q" -> "q" [] c = "R" -> "r" [] c = "S" -> "s" [] c = "T" -> "t"
      [] c = "U" -> "u" [] c = "V" -> "v" [] c = "W" -> "w" [] c = "X" -> "x"
      [] c = "Y" -> "y" [] c = "Z" -> "z" [] OTHER -> c

\* str.lower() on a name given as characters.
LowerChars(chars) == [i \in 1..Len(chars) |-> LowerChar(chars[i])]

\* str.join of the characters.
RECURSIVE Join(_)
Join(chars) == IF chars = <<>> THEN "" ELSE Head(chars) \o Join(Tail(chars))

\* TYPE_SEL.match(s, i): the end of the match, or NoMatch.
TYPE_SEL(s, i) ==
    LET e == RunEnd(s, i, WordChars) IN IF e > i THEN e ELSE NoMatch

\* UNIVERSAL_SEL.match(s, i).
UNIVERSAL_SEL(s, i) == IF At(s, i) = "*" THEN i + 1 ELSE NoMatch

\* CLASS_SEL.match(s, i).
CLASS_SEL(s, i) ==
    IF At(s, i) = "." /\ RunEnd(s, i + 1, WordChars) > i + 1
    THEN RunEnd(s, i + 1, WordChars)
    ELSE NoMatch

\* ID_SEL.match(s, i).
ID_SEL(s, i) ==
    IF At(s, i) = "#" /\ RunEnd(s, i + 1, WordChars) > i + 1
    THEN RunEnd(s, i + 1, WordChars)
    ELSE NoMatch

\* PSEUDO_CLASS_SEL.match(s, i) and PSEUDO_ELEM_SEL.match(s, i): whether
\* they match.
PSEUDO_CLASS_SEL(s, i) ==
    At(s, i) = ":" /\ RunEnd(s, i + 1, WordChars) > i + 1

PSEUDO_ELEM_SEL(s, i) ==
    At(s, i) = ":" /\ At(s, i + 1) = ":" /\ RunEnd(s, i + 2, WordChars) > i + 2

\* str.replace("\\" + quote, quote) on the inside of a quoted value.
RECURSIVE Unescape(_, _)
Unescape(inner, quote) ==
    IF inner = <<>>
    THEN <<>>
    ELSE IF Len(inner) >= 2 /\ inner[1] = "\\" /\ inner[2] = quote
    THEN <<quote>> \o Unescape(SubSeq(inner, 3, Len(inner)), quote)
    ELSE <<Head(inner)>> \o Unescape(Tail(inner), quote)

\* ATTR_SEL.match(s, i) gives the end of the match (NoMatch when there is
\* none) and the groups attr, op and the value; op = <<>> when the optional
\* group did not take part. The regex is followed piece by piece, each
\* operator taking the cursor the piece before it stopped at.
NoAttr == [end |-> NoMatch, attr |-> <<>>, op |-> <<>>, val |-> <<>>]

\* `\s*\]` after the value, from the cursor p on.
AttrClose(s, attr, op, val, p) ==
    IF At(s, p) = "]"
    THEN [end |-> p + 1, attr |-> attr, op |-> op, val |-> val]
    ELSE NoAttr

\* The closing quotes the lazy `.*?` of a string opened at p4 can stop at:
\* the same quote, not after a backslash, no newline before it, and `\s*\]`
\* after it.
ClosingQuotes(s, p4) ==
    {k \in (p4 + 1)..(Len(s) - 1) :
        /\ At(s, k) = At(s, p4)
        /\ At(s, k - 1) # "\\"
        /\ \A j \in (p4 + 1)..(k - 1) : At(s, j) # "\n"
        /\ At(s, RunEnd(s, k + 1, Whitespace)) = "]"}

\* val_string: the string ends at the first of the closing quotes K.
AttrString(s, attr, op, p4, K) ==
    IF K = {}
    THEN NoAttr
    ELSE AttrClose(s, attr, op,
                   Unescape(SubSeq(s, p4 + 2, CHOOSE k \in K : \A l \in K : k <= l),
                            At(s, p4)),
                   RunEnd(s, (CHOOSE k \in K : \A l \in K : k <= l) + 1,
                          Whitespace))

\* val_identifier, which ends at p5, or val_string, from the cursor p4 on.
AttrValue(s, attr, op, p4, p5) ==
    IF p5 > p4
    THEN AttrClose(s, attr, op, SubSeq(s, p4 + 1, p5), RunEnd(s, p5, Whitespace))
    ELSE IF At(s, p4) \in {"'", "\""}
    THEN AttrString(s, attr, op, p4, ClosingQuotes(s, p4))
    ELSE NoAttr

\* The whitespace after the operator, which ends at p.
AttrAfterOp(s, attr, op, p) ==
    AttrValue(s, attr, op, RunEnd(s, p, Whitespace),
              RunEnd(s, RunEnd(s, p, Whitespace), WordChars))

\* `(?P<op>[~|^$*]?=)` and what follows, or `\]` at once, at the cursor p3.
AttrOperator(s, attr, p3) ==
    IF At(s, p3) \in {"~", "|", "^", "$", "*"} /\ At(s, p3 + 1) = "="
    THEN AttrAfterOp(s, attr, SubSeq(s, p3 + 1, p3 + 2), p3 + 2)
    ELSE IF At(s, p3) = "="
    THEN AttrAfterOp(s, attr, <<"=">>, p3 + 1)
    ELSE AttrClose(s, attr, <<>>, <<>>, p3)

\* `(?P<attr>[\w-]+)\s*` from the cursor p1 on; the name ends at p2.
AttrName(s, p1, p2) ==
    IF p2 = p1
    THEN NoAttr
    ELSE AttrOperator(s, SubSeq(s, p1 + 1, p2), RunEnd(s, p2, Whitespace))

ATTR_SEL(s, i) ==
    IF At(s, i) # "["
    THEN NoAttr
    ELSE AttrName(s, RunEnd(s, i + 1, Whitespace),
                  RunEnd(s, RunEnd(s, i + 1, Whitespace), WordChars))

\* The AttributeSelectorType of an operator.
TypeOfOp(op) ==
    CASE op = <<>> -> "BARE"
      [] op = <<"=">> -> "EQUAL"
      [] op = <<"~", "=">> -> "TILDE"
      [] op = <<"|", "=">> -> "PIPE"
      [] op = <<"^", "=">> -> "CARET"
      [] op = <<"$", "=">> -> "DOLLAR"
      [] op = <<"*", "=">> -> "ASTERISK"

\* Selector(tag=, classes=, id=, attrs=, combinator=): one sequence of simple
\* selectors; tag and id are given as characters, <<>> for None. The link
\* `previous` is the place of the sequence in the selector.
Selector(tag, class_list, id, attrs, combinator) ==
    [tag |-> IF tag = <<>> THEN "" ELSE Join(LowerChars(tag)),
     classes |-> class_list, id |-> id, attrs |-> attrs,
     combinator |-> combinator]

\* The simple selectors collected for the sequence being parsed.
NoSimpleSelectors == [tag |-> <<>>, classes |-> <<>>, id |-> <<>>, attrs |-> <<>>]

\* The outcome of parsing one simple selector: the reason of the
\* SelectorParserException raised ("" when none is), the end of the match
\* and the simple selectors of the sequence.
Simple(reason, end, cur) == [why |-> reason, end |-> end, cur |-> cur]

\* Mutant: a later type or ID selector of a sequence replaces the earlier
\* one.
SimpleSelectorLastWins(s, i, cur, type, attr, class, id) ==
    IF type # NoMatch
    THEN Simple("", type, [cur EXCEPT !.tag = SubSeq(s, i + 1, type)])
    ELSE IF UNIVERSAL_SEL(s, i) # NoMatch
    THEN Simple("", UNIVERSAL_SEL(s, i), cur)
    ELSE IF attr.end # NoMatch
    THEN Simple("", attr.end,
                [cur EXCEPT !.attrs =
                    Append(@, AttributeSelector(Join(LowerChars(attr.attr)),
                                                attr.val, TypeOfOp(attr.op)))])
    ELSE IF class # NoMatch
    THEN Simple("", class,
                [cur EXCEPT !.classes = Append(@, SubSeq(s, i + 2, class))])
    ELSE IF id # NoMatch
    THEN Simple("", id, [cur EXCEPT !.id = SubSeq(s, i + 2, id)])
    ELSE IF PSEUDO_CLASS_SEL(s, i)
    THEN Simple("pseudo-classes not supported", i, cur)
    ELSE IF PSEUDO_ELEM_SEL(s, i)
    THEN Simple("pseudo-elements not supported", i, cur)
    ELSE Simple("expecting simple selector, found none", i, cur)

\* The chain of `if ... elif` that parses one simple selector at the cursor
\* i; type, attr, class and id are the matches of TYPE_SEL, ATTR_SEL,
\* CLASS_SEL and ID_SEL there.
SimpleSelectorOf(s, i, cur, type, attr, class, id) ==
    IF type # NoMatch
    THEN IF cur.tag # <<>>
         THEN Simple("multiple type selectors found", i, cur)
         ELSE Simple("", type, [cur EXCEPT !.tag = SubSeq(s, i + 1, type)])
    ELSE IF UNIVERSAL_SEL(s, i) # NoMatch
    THEN Simple("", UNIVERSAL_SEL(s, i), cur)
    ELSE IF attr.end # NoMatch
    THEN Simple("", attr.end,
                [cur EXCEPT !.attrs =
                    Append(@, AttributeSelector(Join(LowerChars(attr.attr)),
                                                attr.val, TypeOfOp(attr.op)))])
    ELSE IF class # NoMatch
    THEN Simple("", class,
                [cur EXCEPT !.classes = Append(@, SubSeq(s, i + 2, class))])
    ELSE IF id # NoMatch
    THEN IF cur.id # <<>>
         THEN Simple("multiple id selectors found", i, cur)
         ELSE Simple("", id, [cur EXCEPT !.id = SubSeq(s, i + 2, id)])
    ELSE IF PSEUDO_CLASS_SEL(s, i)
    THEN Simple("pseudo-classes not supported", i, cur)
    ELSE IF PSEUDO_ELEM_SEL(s, i)
    THEN Simple("pseudo-elements not supported", i, cur)
    ELSE Simple("expecting simple selector, found none", i, cur)

\* The first half of the loop of Selector.from_str: one simple selector is
\* parsed at the cursor and added to the sequence.
SimpleSelector(s, i, cur) ==
    SimpleSelectorOf(s, i, cur, TYPE_SEL(s, i), ATTR_SEL(s, i),
                     CLASS_SEL(s, i), ID_SEL(s, i))

\* Mutant: DESCENDANT_COM is tried first, before the other combinators.
CombinatorFromDescendantFirst(s, i, p) ==
    IF p > i
    THEN [kind |-> "DESCENDANT", end |-> p]
    ELSE IF At(s, p) = ">"
    THEN [kind |-> "CHILD", end |-> RunEnd(s, p + 1, Whitespace)]
    ELSE IF At(s, p) = "+"
    THEN [kind |-> "NEXT_SIBLING", end |-> RunEnd(s, p + 1, Whitespace)]
    ELSE IF At(s, p) = "~"
    THEN [kind |-> "SUBSEQUENT_SIBLING", end |-> RunEnd(s, p + 1, Whitespace)]
    ELSE IF p = Len(s)
    THEN [kind |-> "END", end |-> p]
    ELSE IF At(s, p) = ","
    THEN [kind |-> "END", end |-> p + 1]
    ELSE [kind |-> "NONE", end |-> i]

\* The combinator regexes tried at the cursor i, p being the end of the
\* whitespace there, in the order CHILD_COM, NEXT_SIB_COM, SUB_SIB_COM,
\* END_OF_SELECTOR, DESCENDANT_COM; "NONE" when none matches, "END" for the
\* end of the selector.
CombinatorFrom(s, i, p) ==
    IF At(s, p) = ">"
    THEN [kind |-> "CHILD", end |-> RunEnd(s, p + 1, Whitespace)]
    ELSE IF At(s, p) = "+"
    THEN [kind |-> "NEXT_SIBLING", end |-> RunEnd(s, p + 1, Whitespace)]
    ELSE IF At(s, p) = "~"
    THEN [kind |-> "SUBSEQUENT_SIBLING", end |-> RunEnd(s, p + 1, Whitespace)]
    ELSE IF p = Len(s)
    THEN [kind |-> "END", end |-> p]
    ELSE IF At(s, p) = ","
    THEN [kind |-> "END", end |-> p + 1]
    ELSE IF p > i
    THEN [kind |-> "DESCENDANT", end |-> p]
    ELSE [kind |-> "NONE", end |-> i]

\* The second half of the loop: the combinator or the end of the selector
\* found at the cursor.
CombinatorAt(s, i) == CombinatorFrom(s, i, RunEnd(s, i, Whitespace))

\* The locals of Selector.from_str after one turn of its loop: the cursor i,
\* the simple selectors `cur` of the sequence being parsed, the sequences
\* closed so far (`selector`, head first, <<>> for None), the combinator
\* read last, whether the loop was left by `break`, and the reason of the
\* SelectorParserException raised at the cursor i ("" when none was).
Continue(i, cur, selector, previous_combinator, ended) ==
    [why |-> "", i |-> i, cur |-> cur, selector |-> selector,
     previous_combinator |-> previous_combinator, ended |-> ended]

Raise(cursor, reason) ==
    [why |-> reason, i |-> cursor, cur |-> NoSimpleSelectors, selector |-> <<>>,
     previous_combinator |-> "", ended |-> TRUE]

\* Mutant: a combinator at the end of the text is not checked for.
AfterSimpleSelectorNoEndCheck(s, selector, previous_combinator, simple, com) ==
    IF com.kind = "NONE"
    THEN Continue(simple.end, simple.cur, selector, previous_combinator, FALSE)
    ELSE Continue(com.end, NoSimpleSelectors,
                  <<Selector(simple.cur.tag, simple.cur.classes, simple.cur.id,
                             simple.cur.attrs, previous_combinator)>>
                      \o selector,
                  IF com.kind = "END" THEN "" ELSE com.kind,
                  com.kind = "END")

\* The rest of a turn in which the simple selector `simple` was parsed and
\* `com` was found after it: the sequence goes on, or is closed and linked
\* to the sequences before it.
AfterSimpleSelector(s, selector, previous_combinator, simple, com) ==
    IF com.kind = "NONE"
    THEN Continue(simple.end, simple.cur, selector, previous_combinator, FALSE)
    ELSE IF com.kind # "END" /\ com.end = Len(s)
    THEN Raise(com.end, "unexpected end at combinator")
    ELSE Continue(com.end, NoSimpleSelectors,
                  <<Selector(simple.cur.tag, simple.cur.classes, simple.cur.id,
                             simple.cur.attrs, previous_combinator)>>
                      \o selector,
                  IF com.kind = "END" THEN "" ELSE com.kind,
                  com.kind = "END")

\* A turn of the loop once its simple selector was tried.
TurnWith(s, i, selector, previous_combinator, simple) ==
    IF simple.why # ""
    THEN Raise(i, simple.why)
    ELSE AfterSimpleSelector(s, selector, previous_combinator, simple,
                             CombinatorAt(s, simple.end))

\* One turn of the loop of Selector.from_str with the cursor at i.
LoopTurn(s, i, cur, selector, previous_combinator) ==
    TurnWith(s, i, selector, previous_combinator, SimpleSelector(s, i, cur))

\* ------------------------------------------------------------------ inputs

\* The tag names of the events: two ordinary tags and a void tag, in both
\* letter cases.
Tags == {"a", "A", "b", "br", "BR"}

\* The attribute lists of the start tags.
AttrLists == {<<>>}

\* The contents of the text events.
Texts == {"x"}

\* ------------------------------------------------------------------ actions

Init ==
    /\ nodes = <<>>
    /\ stack = <<>>
    /\ status = "building"
    /\ why = ""
    /\ tree = None
    /\ ev = [kind |-> "none", tag |-> ""]
    /\ q = [op |-> "none"]

\* A handler returned or raised: the exception ends the build (parse_html
\* lets it propagate out of feed()).
Handled(o, kind, tag) ==
    /\ nodes' = o.nodes
    /\ stack' = o.stack
    /\ why' = o.why
    /\ status' = IF o.why = "" THEN "building" ELSE "error"
    /\ tree' = tree
    /\ ev' = [kind |-> kind, tag |-> tag]
    /\ q' = q

StartTag(tag, attrs) ==
    /\ status = "building"
    /\ Len(nodes) < MaxNodes
    /\ Handled(HandleStartTag(nodes, stack, tag, attrs), "start", tag)

StartEndTag(tag, attrs) ==
    /\ status = "building"
    /\ Len(nodes) < MaxNodes
    /\ Handled(HandleStartEndTag(nodes, stack, tag, attrs), "startend", tag)

EndTag(tag) ==
    /\ status = "building"
    /\ Handled(HandleEndTag(nodes, stack, tag), "end", tag)

Text(text) ==
    /\ status = "building"
    /\ Len(nodes) < MaxNodes
    /\ Handled(HandleData(nodes, stack, text), "data", "")

\* parse_html: the input is exhausted and builder.root is read.
Finish ==
    /\ status = "building"
    /\ LET r == Root(nodes, stack)
       IN  /\ status' = IF r.why = "" THEN "done" ELSE "error"
           /\ why' = r.why
           /\ tree' = r.node
    /\ ev' = [kind |-> "root", tag |-> ""]
    /\ UNCHANGED <<nodes, stack, q>>

Next ==
    \/ \E tag \in Tags, attrs \in AttrLists : StartTag(tag, attrs)
    \/ \E tag \in Tags, attrs \in AttrLists : StartEndTag(tag, attrs)
    \/ \E tag \in Tags : EndTag(tag)
    \/ \E text \in Texts : Text(text)
    \/ Finish

Spec == Init /\ [][Next]_vars

\* ------------------------------------------------------------------ queries

\* The tag names of the events of the documents that are queried.
QueryTags == {"a", "b"}

\* The builder events of the documents that are queried.
Build ==
    \/ \E tag \in QueryTags, attrs \in AttrLists : StartTag(tag, attrs)
    \/ \E tag \in QueryTags : EndTag(tag)
    \/ \E text \in Texts : Text(text)
    \/ Finish

\* The nodes a caller of parse_html can reach: the returned root and its
\* descendants.
TreeNodes ==
    IF tree = None THEN {} ELSE {tree} \cup Range(descendants(tree))

Combinators == {"DESCENDANT", "CHILD", "NEXT_SIBLING", "SUBSEQUENT_SIBLING"}

\* The tag of a sequence of simple selectors: a type selector or none (`*`).
SequenceTags == {""} \cup QueryTags

\* The selectors `A`.
Selectors1 == {<<Sequence(t, "")>> : t \in SequenceTags}

\* The selectors `A B`, `A > B`, `A + B`, `A ~ B`.
Selectors2 ==
    {<<Sequence(t, c), Sequence(u, "")>> :
        t \in SequenceTags, c \in Combinators, u \in SequenceTags}

\* The selectors `A > B > C` and `A + B + C`.
Selectors3 ==
    {<<Sequence(t, c), Sequence(u, c), Sequence(v, "")>> :
        t \in SequenceTags, u \in SequenceTags, v \in SequenceTags,
        c \in {"CHILD", "NEXT_SIBLING"}}

\* The selectors `A > B C` and `A > B ~ C`, whose head hands the root on to
\* a child combinator.
Selectors3Mixed ==
    {<<Sequence(t, c), Sequence(u, "CHILD"), Sequence(v, "")>> :
        t \in SequenceTags, u \in SequenceTags, v \in SequenceTags,
        c \in {"DESCENDANT", "SUBSEQUENT_SIBLING"}}

MatchSelectors == Selectors1 \cup Selectors2 \cup Selectors3 \cup Selectors3Mixed

\* node.matched_by(selector, root=root) with a Selector, which
\* _normalize_selector wraps into a group of one. A query reads the tree and
\* changes nothing, so one query per returned tree shows all of them.
MatchedBy(n, sel, root) ==
    /\ status = "done"
    /\ q.op = "none"
    /\ q' = [op |-> "matched_by", node |-> n, sel |-> sel, root |-> root,
             raised |-> MatchedByRaises(n, <<sel>>, root),
             result |-> matched_by(n, <<sel>>, root)]
    /\ UNCHANGED <<nodes, stack, status, why, tree, ev>>

NextMatch ==
    \/ Build
    \/ /\ status = "done"
       /\ q.op = "none"
       /\ \E n \in TreeNodes, sel \in MatchSelectors,
             root \in {None} \cup TreeNodes :
               MatchedBy(n, sel, root)

SpecMatch == Init /\ [][NextMatch]_vars

\* The tag names of the documents whose paths carry three distinct tags.
PathTags == {"a", "b", "c"}

\* The selectors `A > B` over the tags of those documents.
PathSelectors ==
    {<<Sequence(t, "CHILD"), Sequence(u, "")>> : t \in PathTags, u \in PathTags}

NextPath ==
    \/ \E tag \in PathTags, attrs \in AttrLists : StartTag(tag, attrs)
    \/ \E tag \in PathTags : EndTag(tag)
    \/ Finish
    \/ /\ status = "done"
       /\ q.op = "none"
       /\ \E n \in TreeNodes, sel \in PathSelectors,
             root \in {None} \cup TreeNodes :
               MatchedBy(n, sel, root)

SpecPath == Init /\ [][NextPath]_vars

\* The selector groups of the select_all queries: every selector of one or
\* two sequences alone, and the groups of two and of three members drawn
\* from a few of them.
GroupMembers ==
    Selectors1 \cup
    {<<Sequence("b", c), Sequence("a", "")>> : c \in Combinators}

SelectGroups ==
    {<<s>> : s \in Selectors1 \cup Selectors2}
        \cup {<<s, t>> : s \in GroupMembers, t \in GroupMembers}
        \cup {<<s, t, u>> : s \in Selectors1, t \in Selectors1, u \in Selectors1}

\* node.select_all(group).
SelectAll(n, group) ==
    /\ status = "done"
    /\ q.op = "none"
    /\ q' = [op |-> "select_all", node |-> n, group |-> group,
             raised |-> SelectAllRaises(n, group),
             result |-> IF SelectAllRaises(n, group)
                        THEN <<>>
                        ELSE select_all(n, group)]
    /\ UNCHANGED <<nodes, stack, status, why, tree, ev>>

\* node.select(group).
Select(n, group) ==
    /\ status = "done"
    /\ q.op = "none"
    /\ q' = [op |-> "select", node |-> n, group |-> group,
             raised |-> SelectRaises(n, group),
             result |-> IF SelectRaises(n, group)
                        THEN None
                        ELSE select(n, group)]
    /\ UNCHANGED <<nodes, stack, status, why, tree, ev>>

NextSelect ==
    \/ Build
    \/ /\ status = "done"
       /\ q.op = "none"
       /\ \E n \in TreeNodes, group \in SelectGroups : SelectAll(n, group)
    \/ /\ status = "done"
       /\ q.op = "none"
       /\ \E n \in TreeNodes, s \in Selectors1 \cup Selectors2 : Select(n, <<s>>)

SpecSelect == Init /\ [][NextSelect]_vars

\* The strings of at most n characters drawn from chars.
Strings(chars, n) == UNION {[1..k -> chars] : k \in 0..n}

\* The characters of the attribute values: letters, the hyphen and a blank.
AttrChars == {"a", "b", "c", "-", " "}

\* The value of the worked example, "a-b-c".
ExampleValue == <<"a", "-", "b", "-", "c">>

\* The attribute values of the queried elements.
AttrValues == Strings(AttrChars, MaxValueLen) \cup {ExampleValue}

\* The attribute lists of the queried elements: with the attribute `attr`
\* (written in either letter case, with a value and without one), and
\* without it.
AttrDocs ==
    {<<>>, <<<<"class", <<"a">>>>>>, <<<<"ATTR", ExampleValue>>>>,
     <<<<"attr", NoValue>>>>}
        \cup {<<<<"attr", v>>>> : v \in AttrValues}

AttributeSelectorTypes ==
    {"BARE", "EQUAL", "TILDE", "PIPE", "CARET", "DOLLAR", "ASTERISK"}

\* The attribute selectors [attr], [attr=r], [attr~=r], [attr|=r], [attr^=r],
\* [attr$=r] and [attr*=r].
AttributeSelectors ==
    {AttributeSelector("attr", <<>>, "BARE")}
        \cup {AttributeSelector("attr", r, type) :
                 r \in Strings(AttrChars, MaxRequiredLen),
                 type \in AttributeSelectorTypes \ {"BARE"}}

\* attribute_selector.matches(node).
AttrMatches(n, a) ==
    /\ status = "done"
    /\ q.op = "none"
    /\ q' = [op |-> "attr_matches", node |-> n, sel |-> a,
             result |-> AttributeSelectorMatches(a, n)]
    /\ UNCHANGED <<nodes, stack, status, why, tree, ev>>

\* The documents <a attr="v"></a>, and the attribute selectors tried on
\* their element.
NextAttr ==
    \/ /\ nodes = <<>>
       /\ \E attrs \in AttrDocs : StartTag("a", attrs)
    \/ EndTag("a")
    \/ Finish
    \/ /\ status = "done"
       /\ q.op = "none"
       /\ \E n \in TreeNodes, a \in AttributeSelectors : AttrMatches(n, a)

SpecAttr == Init /\ [][NextAttr]_vars

\* The attribute lists of the elements of the documents with text: none, an
\* ID with a class, and both written without a value.
TextDocAttrs ==
    {<<>>,
     <<<<"id", <<"i">>>>, <<"class", <<"c">>>>>>,
     <<<<"id", NoValue>>, <<"class", NoValue>>>>}

\* The sequences tried on those documents: `*`, `a`, `.c`, `#i` and `[id]`.
TextSequences(combinator) ==
    {Selector(<<>>, <<>>, <<>>, <<>>, combinator),
     Selector(<<"a">>, <<>>, <<>>, <<>>, combinator),
     Selector(<<>>, <<<<"c">>>>, <<>>, <<>>, combinator),
     Selector(<<>>, <<>>, <<"i">>, <<>>, combinator),
     Selector(<<>>, <<>>, <<>>, <<AttributeSelector("id", <<>>, "BARE")>>,
              combinator)}

\* The selectors of one and of two of those sequences.
TextSelectors ==
    {<<h>> : h \in TextSequences("")}
        \cup {<<h, p>> : h \in UNION {TextSequences(c) : c \in Combinators},
                         p \in TextSequences("")}

\* The documents of <a> elements and text, and select_all on their nodes.
NextText ==
    \/ \E attrs \in TextDocAttrs : StartTag("a", attrs)
    \/ EndTag("a")
    \/ \E text \in Texts : Text(text)
    \/ Finish
    \/ /\ status = "done"
       /\ q.op = "none"
       /\ \E n \in TreeNodes, sel \in TextSelectors : SelectAll(n, <<sel>>)

SpecText == Init /\ [][NextText]_vars

\* list(node.ancestors(root=root)): the nodes the generator yields and
\* whether it raises.
Ancestors(n, root) ==
    /\ status = "done"
    /\ q.op = "none"
    /\ q' = [op |-> "ancestors", node |-> n, root |-> root,
             yield |-> ancestors(n, root).yield,
             raised |-> ancestors(n, root).raised]
    /\ UNCHANGED <<nodes, stack, status, why, tree, ev>>

\* node.next_siblings().
NextSiblings(n) ==
    /\ status = "done"
    /\ q.op = "none"
    /\ q' = [op |-> "next_siblings", node |-> n, result |-> next_siblings(n)]
    /\ UNCHANGED <<nodes, stack, status, why, tree, ev>>

\* node.previous_siblings().
PreviousSiblings(n) ==
    /\ status = "done"
    /\ q.op = "none"
    /\ q' = [op |-> "previous_siblings", node |-> n,
             result |-> previous_siblings(n)]
    /\ UNCHANGED <<nodes, stack, status, why, tree, ev>>

NextNav ==
    \/ Build
    \/ /\ status = "done"
       /\ q.op = "none"
       /\ \E n \in TreeNodes, root \in {None} \cup TreeNodes : Ancestors(n, root)
    \/ /\ status = "done"
       /\ q.op = "none"
       /\ \E n \in TreeNodes : NextSiblings(n)
    \/ /\ status = "done"
       /\ q.op = "none"
       /\ \E n \in TreeNodes : PreviousSiblings(n)

SpecNav == Init /\ [][NextNav]_vars

\* The pieces the selector texts are put together from: a type, an ID, a
\* class, the universal and an attribute selector, a blank, the three
\* combinator signs and the comma.
ParseTokens ==
    {<<"a">>, <<"#", "i">>, <<".", "c">>, <<"*">>, <<"[", "a", "]">>,
     <<" ">>, <<">">>, <<"+">>, <<"~">>, <<",">>}

\* The selector texts: up to MaxTokens tokens written one after the other.
ParseInputs == {Flatten(ts) : ts \in Strings(ParseTokens, MaxTokens)}

\* SelectorGroup.from_str(s) is entered: the cursor at 0, no selector yet.
\* `at` tells where the parser stands: in the loop of SelectorGroup.from_str
\* ("group") or in the loop of the Selector.from_str it called ("selector"),
\* whose locals are in `local`. `group` is the group returned, <<>> until
\* then; `why` and `cursor` are those of the exception raised.
FromStrCall(s) ==
    [op |-> "from_str", s |-> s, i |-> 0, selectors |-> <<>>,
     at |-> "group", local |-> Continue(0, NoSimpleSelectors, <<>>, "", FALSE),
     state |-> "parsing", why |-> "", cursor |-> 0, group |-> <<>>]

InitParse ==
    /\ nodes = <<>>
    /\ stack = <<>>
    /\ status = "building"
    /\ why = ""
    /\ tree = None
    /\ ev = [kind |-> "none", tag |-> ""]
    /\ q \in {FromStrCall(s) : s \in ParseInputs}

\* The SelectorParserException leaves both loops; no group is returned.
Failed(cursor, reason) ==
    [q EXCEPT !.state = "error", !.why = reason, !.cursor = cursor]

\* Selector.from_str returns the selector and the moved cursor, and
\* SelectorGroup.from_str appends the selector.
Returned(selector, cursor) ==
    [q EXCEPT !.selectors = Append(@, selector), !.i = cursor, !.at = "group"]

\* The parser after a turn t of the loop of Selector.from_str.
Turned(t) ==
    IF t.why # ""
    THEN Failed(t.i, t.why)
    ELSE IF t.ended
    THEN Returned(t.selector, t.i)
    ELSE [q EXCEPT !.local = t]

\* The loop of SelectorGroup.from_str calls Selector.from_str(s, i), which
\* sets up its locals and skips leading whitespace.
EnterSelector ==
    /\ q.op = "from_str"
    /\ q.state = "parsing"
    /\ q.at = "group"
    /\ q.i < Len(q.s)
    /\ q' = [q EXCEPT !.at = "selector",
                      !.local = Continue(RunEnd(q.s, q.i, Whitespace),
                                         NoSimpleSelectors, <<>>, "", FALSE)]
    /\ UNCHANGED <<nodes, stack, status, why, tree, ev>>

\* One turn of the loop of Selector.from_str: it raises, goes on, or is
\* left by `break` with the selector complete.
ParseSimpleSelector ==
    /\ q.op = "from_str"
    /\ q.state = "parsing"
    /\ q.at = "selector"
    /\ q.local.i < Len(q.s)
    /\ q' = Turned(LoopTurn(q.s, q.local.i, q.local.cur, q.local.selector,
                            q.local.previous_combinator))
    /\ UNCHANGED <<nodes, stack, status, why, tree, ev>>

\* The loop of Selector.from_str ends at the end of the text: no selector
\* raises, otherwise the selector is returned.
LeaveSelector ==
    /\ q.op = "from_str"
    /\ q.state = "parsing"
    /\ q.at = "selector"
    /\ q.local.i >= Len(q.s)
    /\ q' = IF q.local.selector = <<>>
            THEN Failed(q.local.i, "selector is empty")
            ELSE Returned(q.local.selector, q.local.i)
    /\ UNCHANGED <<nodes, stack, status, why, tree, ev>>

\* The loop of SelectorGroup.from_str is left: an empty list of selectors
\* raises, otherwise the group is returned.
ParseEnd ==
    /\ q.op = "from_str"
    /\ q.state = "parsing"
    /\ q.at = "group"
    /\ q.i >= Len(q.s)
    /\ q' = IF q.selectors = <<>>
            THEN Failed(q.i, "selector group is empty")
            ELSE [q EXCEPT !.state = "done", !.group = q.selectors]
    /\ UNCHANGED <<nodes, stack, status, why, tree, ev>>

NextParse ==
    \/ EnterSelector
    \/ ParseSimpleSelector
    \/ LeaveSelector
    \/ ParseEnd

SpecParse == InitParse /\ [][NextParse]_vars

\* ------------------------------------------------------------------ C1..C4

\* The positions of the open (unclosed) elements on the stack.
OpenPositions == {i \in 1..Len(stack) : nodes[stack[i]].partial}

\* The innermost open element: the open element nearest to the top.
InnermostOpen ==
    stack[CHOOSE i \in OpenPositions : \A j \in OpenPositions : j <= i]

\* C1: an EndTag(name) event succeeds only if an open element remains on the
\* stack and the innermost one has the tag `name`, letter case ignored; with
\* no open element the build fails with "extra end tag", with another tag
\* with "expecting end tag", and a failed build never returns a tree.
C1_EndTagMustMatch ==
    [][/\ (status = "building" /\ ev'.kind = "end") =>
             /\ (status' = "building") <=>
                    /\ OpenPositions # {}
                    /\ Lower(nodes[InnermostOpen].tag) = Lower(ev'.tag)
             /\ OpenPositions = {} => status' = "error" /\ why' = "extra end tag"
             /\ (/\ OpenPositions # {}
                 /\ Lower(nodes[InnermostOpen].tag) # Lower(ev'.tag)) =>
                    status' = "error" /\ why' = "expecting end tag"
       /\ status' = "error" => tree' = None
       /\ status = "error" => status' = "error"]_vars

\* C1 witness: an end tag that does not name the innermost open element was
\* handled after closed nodes had been set aside, and the build failed.
C1_Witness ==
    /\ ev.kind = "end"
    /\ status = "error"
    /\ why = "expecting end tag"
    /\ tree = None
    /\ stack # <<>>
    /\ nodes[Last(stack)].partial
    /\ Len(nodes) > Len(stack)

\* C2: reading the root at the end of a build fails iff the stack is empty or
\* its bottom node is still open, and returns the bottom node otherwise.
C2_RootAccess ==
    ev.kind = "root" =>
        /\ status \in {"done", "error"}
        /\ status = "error" <=> (stack = <<>> \/ nodes[stack[1]].partial)
        /\ stack = <<>> => why = "no root tag"
        /\ status = "error" => tree = None
        /\ status = "done" => tree = stack[1]

\* C2 witness: the root was read while the bottom element was still open
\* under a closed one.
C2_Witness ==
    /\ ev.kind = "root"
    /\ status = "error"
    /\ why = "root tag not closed yet"
    /\ Len(stack) >= 2
    /\ ~nodes[Last(stack)].partial

\* The state a void start tag must lead to: one closed element without
\* children on top of the unchanged stack, nothing else touched.
VoidPushed(o, tag, attrs) ==
    /\ o.why = ""
    /\ o.stack = Append(stack, Len(nodes) + 1)
    /\ Len(o.nodes) = Len(nodes) + 1
    /\ SubSeq(o.nodes, 1, Len(nodes)) = nodes
    /\ o.nodes[Len(nodes) + 1] =
           [kind |-> "element", tag |-> Lower(tag), attrs |-> attrs,
            text |-> "", parent |-> None, children |-> <<>>,
            partial |-> FALSE]

\* C3: in every builder state a plain start tag and a self-closing start-end
\* tag of a void element (any letter case) lead to the same state, one closed
\* childless element pushed; a void element never has children.
C3_VoidSpellings ==
    /\ status = "building" =>
           \A tag \in Tags, attrs \in AttrLists :
               Lower(tag) \in VoidTags =>
                   /\ HandleStartTag(nodes, stack, tag, attrs) =
                          HandleStartEndTag(nodes, stack, tag, attrs)
                   /\ VoidPushed(HandleStartTag(nodes, stack, tag, attrs),
                                 tag, attrs)
                   /\ VoidPushed(HandleStartEndTag(nodes, stack, tag, attrs),
                                 tag, attrs)
    /\ (ev.kind \in {"start", "startend"} /\ Lower(ev.tag) \in VoidTags) =>
           /\ status = "building"
           /\ nodes[Last(stack)].tag = Lower(ev.tag)
           /\ nodes[Last(stack)].children = <<>>
           /\ ~nodes[Last(stack)].partial
    /\ \A i \in 1..Len(nodes) :
           nodes[i].tag \in VoidTags => nodes[i].children = <<>>

\* C3 witness: a self-closing void tag in upper case was handled inside an
\* open element.
C3_Witness ==
    /\ ev.kind = "startend"
    /\ ev.tag = "BR"
    /\ status = "building"
    /\ Len(stack) >= 2
    /\ nodes[Last(stack)].tag = "br"
    /\ nodes[stack[Len(stack) - 1]].partial

\* The number of times node n occurs among the children of p.
Occurrences(p, n) ==
    Cardinality({i \in 1..Len(nodes[p].children) : nodes[p].children[i] = n})

\* The nodes reached from n over at most k child links.
RECURSIVE Within(_, _)
Within(n, k) ==
    IF k = 0
    THEN {n}
    ELSE {n} \cup UNION {Within(nodes[n].children[i], k - 1) :
                            i \in 1..Len(nodes[n].children)}

\* The node reached from n over k parent links (None past the top).
RECURSIVE Up(_, _)
Up(n, k) ==
    IF k = 0 \/ n = None THEN n ELSE Up(nodes[n].parent, k - 1)

\* C4: in the tree a successful build returns, a node with a parent occurs
\* exactly once among that parent's children, every child points back to its
\* parent, the root has no parent, and the parent links of every node lead to
\* the root without a cycle.
C4_TreeShape ==
    status = "done" =>
        LET T == Within(tree, Len(nodes))
        IN  /\ nodes[tree].parent = None
            /\ \A n \in T :
                   /\ nodes[n].parent # None =>
                          Occurrences(nodes[n].parent, n) = 1
                   /\ \A i \in 1..Len(nodes[n].children) :
                          nodes[nodes[n].children[i]].parent = n
                   /\ \E k \in 0..(Len(nodes) - 1) :
                          /\ Up(n, k) = tree
                          /\ \A j \in 0..(k - 1) : Up(n, j) \notin {tree, None}
                          /\ \A j, l \in 0..k : j # l => Up(n, j) # Up(n, l)

\* C4 witness: a returned tree whose root has two children, one of them with
\* a child of its own.
C4_Witness ==
    /\ status = "done"
    /\ Len(nodes[tree].children) = 2
    /\ \E i \in 1..2 : nodes[nodes[tree].children[i]].children # <<>>

\* ------------------------------------------------------------------ C5..C10

\* The nodes strictly below n: those whose parent links lead to n.
ProperDescendants(n) ==
    {d \in 1..Len(nodes) : \E k \in 1..Len(nodes) : Up(d, k) = n}

\* The ancestors of n, the parent first and the top-most last, as a set.
ProperAncestors(n) == {Up(n, k) : k \in 1..Len(nodes)} \ {None}

\* The place of a child among the children of its parent.
Place(d) ==
    CHOOSE i \in 1..Len(nodes[nodes[d].parent].children) :
        nodes[nodes[d].parent].children[i] = d

\* The places passed on the way down from n to its descendant d.
RECURSIVE PathFrom(_, _)
PathFrom(n, d) ==
    IF d = n THEN <<>> ELSE Append(PathFrom(n, nodes[d].parent), Place(d))

\* Pre-order on paths: a node comes before its own subtree, and a subtree
\* before the next sibling.
PathBefore(x, y) ==
    \E k \in 1..Len(y) :
        /\ k <= Len(x) + 1
        /\ SubSeq(x, 1, k - 1) = SubSeq(y, 1, k - 1)
        /\ (k = Len(x) + 1 \/ x[k] < y[k])

\* r lists nodes below n in pre-order, none of them twice.
InPreOrder(n, r) ==
    \A i, j \in 1..Len(r) :
        i < j => PathBefore(PathFrom(n, r[i]), PathFrom(n, r[j]))

\* The descendants of n the group matches with root = n.
Matched(n, group) ==
    {d \in ProperDescendants(n) : SelectorGroupMatches(group, d, n)}

\* C5: select_all(node, group) is exactly the descendants of node that the
\* group matches with root = node, each once, in pre-order; select is the
\* first of them, or None when there is none.
C5_SelectAll ==
    /\ q.op = "select_all" =>
           /\ Range(q.result) = Matched(q.node, q.group)
           /\ InPreOrder(q.node, q.result)
    /\ q.op = "select" =>
           IF Matched(q.node, q.group) = {}
           THEN q.result = None
           ELSE /\ q.result \in Matched(q.node, q.group)
                /\ \A d \in Matched(q.node, q.group) \ {q.result} :
                       PathBefore(PathFrom(q.node, q.result),
                                  PathFrom(q.node, d))

\* C5 witness: of the three descendants of the node the first is not
\* matched; its child and then its next sibling are returned.
C5_Witness ==
    /\ q.op = "select_all"
    /\ Cardinality(ProperDescendants(q.node)) = 3
    /\ Len(q.result) = 2
    /\ nodes[q.result[1]].parent \notin {q.node, None}
    /\ nodes[q.result[2]].parent = q.node

\* The ancestors of n that lie at or below root.
AncestorsUpTo(n, root) ==
    {a \in ProperAncestors(n) : a = root \/ root \in ProperAncestors(a)}

\* C6: with the descendant combinator and a root above the node, a match
\* needs the previous sequence to match an ancestor of the node at or below
\* root.
C6_DescendantBoundedByRoot ==
    (/\ q.op = "matched_by"
     /\ Len(q.sel) >= 2
     /\ q.sel[1].combinator = "DESCENDANT"
     /\ q.root \in ProperAncestors(q.node)
     /\ q.result) =>
        \E a \in AncestorsUpTo(q.node, q.root) :
            SelectorMatches(Tail(q.sel), a, q.root)

\* C7: with a root given, `A > B > C` does not match a node whose parent is
\* root, since A would be tried on root's own parent.
C7_ChildChainStopsAtRoot ==
    (/\ q.op = "matched_by"
     /\ Len(q.sel) = 3
     /\ q.sel[1].combinator = "CHILD"
     /\ q.sel[2].combinator = "CHILD"
     /\ q.root # None
     /\ nodes[q.node].parent = q.root) =>
        ~q.result

\* C8: on a path r > x > y of three distinct tags, `x > y` matches y with
\* root set to x or to any ancestor of x, and `r > y` never matches y.
C8_ChildPath ==
    q.op = "matched_by" =>
        LET y == q.node
            x == Up(y, 1)
            r == Up(y, 2)
        IN  (/\ r # None
             /\ nodes[x].tag # nodes[y].tag
             /\ nodes[r].tag # nodes[y].tag
             /\ nodes[r].tag # nodes[x].tag) =>
                /\ (/\ q.sel = <<Sequence(nodes[y].tag, "CHILD"),
                                 Sequence(nodes[x].tag, "")>>
                    /\ q.root \in ProperAncestors(y)) => q.result
                /\ q.sel = <<Sequence(nodes[y].tag, "CHILD"),
                             Sequence(nodes[r].tag, "")>> => ~q.result

\* C8 witness: `x > y` matched y with root set to the parent of x.
C8_Witness ==
    /\ q.op = "matched_by"
    /\ Up(q.node, 2) # None
    /\ Cardinality({nodes[Up(q.node, k)].tag : k \in 0..2}) = 3
    /\ q.sel = <<Sequence(nodes[q.node].tag, "CHILD"),
                 Sequence(nodes[Up(q.node, 1)].tag, "")>>
    /\ q.root = Up(q.node, 2)
    /\ q.result

\* C9: select_all with the group `A, B` is the union of select_all(A) and
\* select_all(B) in pre-order without duplicates, and equals select_all with
\* the group `B, A`.
C9_GroupUnion ==
    (q.op = "select_all" /\ Len(q.group) >= 2) =>
        \A k \in 1..(Len(q.group) - 1) :
            LET A == SubSeq(q.group, 1, k)
                B == SubSeq(q.group, k + 1, Len(q.group))
            IN  /\ Range(q.result) =
                       Range(select_all(q.node, A)) \cup
                       Range(select_all(q.node, B))
                /\ InPreOrder(q.node, q.result)
                /\ q.result = select_all(q.node, B \o A)

\* C9 witness: the matches of A and of B interleave, so the result is
\* neither list followed by the other.
C9_Witness ==
    /\ q.op = "select_all"
    /\ Len(q.group) = 2
    /\ LET ra == select_all(q.node, <<q.group[1]>>)
           rb == select_all(q.node, <<q.group[2]>>)
       IN  /\ Range(ra) \ Range(rb) # {}
           /\ Range(rb) \ Range(ra) # {}
           /\ q.result # ra \o rb
           /\ q.result # rb \o ra

\* The nearest element among the siblings before n, None when there is none.
NearestElementBefore(n) ==
    IF nodes[n].parent = None
    THEN None
    ELSE LET ch == nodes[nodes[n].parent].children
             E  == {j \in 1..(Place(n) - 1) : nodes[ch[j]].kind = "element"}
         IN  IF E = {}
             THEN None
             ELSE ch[CHOOSE j \in E : \A l \in E : l <= j]

\* C10: with the next-sibling combinator the selector matches a node iff the
\* simple selectors of the head hold on it and the previous sequence matches
\* its nearest preceding element sibling, text nodes in between skipped.
C10_NextSibling ==
    (/\ q.op = "matched_by"
     /\ Len(q.sel) >= 2
     /\ q.sel[1].combinator = "NEXT_SIBLING") =>
        (q.result <=>
            /\ SimpleSelectorsMatch(q.sel[1], q.node)
            /\ NearestElementBefore(q.node) # None
            /\ SelectorMatches(Tail(q.sel), NearestElementBefore(q.node), None))

\* C10 witness: `A + B` matched a node across a text node.
C10_Witness ==
    /\ q.op = "matched_by"
    /\ Len(q.sel) = 2
    /\ q.sel[1].combinator = "NEXT_SIBLING"
    /\ q.sel[1].tag # ""
    /\ q.sel[2].tag # ""
    /\ q.result
    /\ Place(q.node) = 3
    /\ nodes[nodes[nodes[q.node].parent].children[2]].kind = "text"

\* ------------------------------------------------------------------ C11..C20

\* The element nodes among the siblings before n.
ElementsBefore(n) ==
    IF nodes[n].parent = None
    THEN {}
    ELSE LET ch == nodes[nodes[n].parent].children
         IN  {ch[j] : j \in {k \in 1..(Place(n) - 1) : nodes[ch[k]].kind = "element"}}

\* C11: with the subsequent-sibling combinator the selector matches a node
\* iff the simple selectors of the head hold on it and the previous sequence,
\* evaluated with the same root, matches some preceding element sibling; the
\* siblings scanned do not depend on root, and text nodes are no candidates.
C11_SubsequentSibling ==
    (/\ q.op = "matched_by"
     /\ Len(q.sel) >= 2
     /\ q.sel[1].combinator = "SUBSEQUENT_SIBLING") =>
        (q.result <=>
            /\ SimpleSelectorsMatch(q.sel[1], q.node)
            /\ \E sibling \in ElementsBefore(q.node) :
                   SelectorMatches(Tail(q.sel), sibling, q.root))

\* C11 witness: `A ~ B` matched a node through a sibling that is not its
\* nearest preceding element sibling, with the sibling in between as root.
C11_Witness ==
    /\ q.op = "matched_by"
    /\ Len(q.sel) = 2
    /\ q.sel[1].combinator = "SUBSEQUENT_SIBLING"
    /\ q.sel[1].tag # ""
    /\ q.sel[2].tag # ""
    /\ q.result
    /\ q.root # None
    /\ q.root = NearestElementBefore(q.node)
    /\ ~SelectorMatches(Tail(q.sel), NearestElementBefore(q.node), q.root)

\* The whitespace-separated tokens of v: the runs of characters other than
\* whitespace that cannot be extended to either side.
TokensOf(v) ==
    {SubSeq(v, i, j) : i \in 1..Len(v), j \in 1..Len(v)} \cap
    {w \in Strings(AttrChars \ Whitespace, Len(v)) :
        /\ w # <<>>
        /\ \E i \in 1..(Len(v) - Len(w) + 1) :
               /\ \A k \in 1..Len(w) : v[i + k - 1] = w[k]
               /\ i = 1 \/ v[i - 1] \in Whitespace
               /\ i + Len(w) - 1 = Len(v) \/ v[i + Len(w)] \in Whitespace}

\* v is u followed by w.
Concat(v, u, w) ==
    /\ Len(v) = Len(u) + Len(w)
    /\ \A i \in 1..Len(u) : v[i] = u[i]
    /\ \A i \in 1..Len(w) : v[Len(u) + i] = w[i]

\* The parts of v: its prefixes, suffixes and substrings.
Parts(v) == {SubSeq(v, i, j) : i \in 1..(Len(v) + 1), j \in 0..Len(v)}

\* C12: an attribute selector never matches a node without the attribute;
\* on a node that has the attribute, v being its value, [attr] matches,
\* [attr=r] iff v = r, [attr~=r] iff r is a token of v, [attr|=r]
\* iff v = r or v starts with r and a hyphen, and [attr^=r], [attr$=r],
\* [attr*=r] iff r is not empty and v starts with, ends with, contains r.
\* For v = "a-b-c": ^=a, $=c, *=b and |=a match, |=a- does not.
C12_AttributeOperators ==
    q.op = "attr_matches" =>
        LET has == {i \in 1..Len(nodes[q.node].attrs) :
                       nodes[q.node].attrs[i][1] = q.sel.attr}
            v   == nodes[q.node].attrs[CHOOSE i \in has : TRUE][2]
            r   == q.sel.val
            t   == q.sel.type
        IN  /\ has = {} => ~q.result
            /\ has # {} =>
                   /\ t = "BARE" => q.result
                   /\ t = "EQUAL" => (q.result <=> v = r)
                   /\ t = "TILDE" => (q.result <=> r \in TokensOf(v))
                   /\ t = "PIPE" =>
                          (q.result <=>
                              \/ v = r
                              \/ \E w \in Parts(v) :
                                     Concat(v, r \o <<"-">>, w))
                   /\ t = "CARET" =>
                          (q.result <=>
                              r # <<>> /\ \E w \in Parts(v) : Concat(v, r, w))
                   /\ t = "DOLLAR" =>
                          (q.result <=>
                              r # <<>> /\ \E u \in Parts(v) : Concat(v, u, r))
                   /\ t = "ASTERISK" =>
                          (q.result <=>
                              r # <<>> /\ \E u, w \in Parts(v) :
                                             Concat(v, u \o r, w))
                   /\ v = ExampleValue =>
                          /\ (t = "CARET" /\ r = <<"a">>) => q.result
                          /\ (t = "DOLLAR" /\ r = <<"c">>) => q.result
                          /\ (t = "ASTERISK" /\ r = <<"b">>) => q.result
                          /\ (t = "PIPE" /\ r = <<"a">>) => q.result
                          /\ (t = "PIPE" /\ r = <<"a", "-">>) => ~q.result

\* C12 witness: [attr] was tried on an element that has the attribute,
\* written without a value, and did not match.
C12_Witness ==
    /\ q.op = "attr_matches"
    /\ HasAttr(q.node, "attr")
    /\ GetAttr(q.node, "attr") = NoValue
    /\ q.sel.type = "BARE"
    /\ ~q.result

\* C13 as stated: ancestors(root) raises whenever a root is given that is not
\* among the ancestors of the node.
C13_RootNotAncestorRaises ==
    (/\ q.op = "ancestors"
     /\ q.root # None
     /\ q.root \notin ProperAncestors(q.node)) =>
        q.raised

\* C13, amended: ancestors(root) raises whenever a root is given that is
\* neither the node itself nor one of its ancestors; it never ends normally
\* then, whatever it yielded before.
C13_ForeignRootRaises ==
    (/\ q.op = "ancestors"
     /\ q.root # None
     /\ q.root # q.node
     /\ q.root \notin ProperAncestors(q.node)) =>
        q.raised

\* C13 witness: the root given was a child of the node; the walk yielded the
\* ancestors of the node and raised at the top.
C13_Witness ==
    /\ q.op = "ancestors"
    /\ q.root # None
    /\ nodes[q.root].parent = q.node
    /\ q.yield # <<>>
    /\ q.raised

\* The ancestors of n up to the k-th, nearest first.
Chain(n, k) == [i \in 1..k |-> Up(n, i)]

\* C14: ancestors() yields the parent, the grandparent and so on up to the
\* top-most node, nearest first, and nothing for a node without parent;
\* ancestors(root = r) for an ancestor r yields the same sequence up to and
\* including r; ancestors(root = the node) yields nothing; none of them
\* raises.
C14_AncestorsOrder ==
    q.op = "ancestors" =>
        /\ q.root = None =>
               /\ ~q.raised
               /\ q.yield = Chain(q.node, Cardinality(ProperAncestors(q.node)))
               /\ nodes[q.node].parent = None => q.yield = <<>>
        /\ q.root \in ProperAncestors(q.node) =>
               /\ ~q.raised
               /\ \E k \in 1..Len(nodes) :
                      /\ Up(q.node, k) = q.root
                      /\ q.yield = Chain(q.node, k)
               /\ Last(q.yield) = q.root
        /\ (q.root = q.node /\ q.root # None) =>
               /\ ~q.raised
               /\ q.yield = <<>>

\* C14 witness: with the grandparent as root below the top-most node, the
\* parent and the grandparent were yielded.
C14_Witness ==
    /\ q.op = "ancestors"
    /\ Up(q.node, 3) # None
    /\ q.root = Up(q.node, 2)
    /\ q.yield = <<Up(q.node, 1), Up(q.node, 2)>>
    /\ ~q.raised

\* C15: for a node n with parent p, the reverse of previous_siblings(n),
\* then n, then next_siblings(n) is the children sequence of p, n being
\* found among the children by identity; a node without parent has no
\* siblings on either side.
C15_SiblingsPartition ==
    /\ q.op = "previous_siblings" =>
           IF nodes[q.node].parent = None
           THEN q.result = <<>>
           ELSE /\ Reverse(q.result) \o <<q.node>> \o next_siblings(q.node) =
                       nodes[nodes[q.node].parent].children
                /\ Len(q.result) = Place(q.node) - 1
    /\ q.op = "next_siblings" =>
           IF nodes[q.node].parent = None
           THEN q.result = <<>>
           ELSE /\ Reverse(previous_siblings(q.node)) \o <<q.node>> \o q.result =
                       nodes[nodes[q.node].parent].children
                /\ Len(q.result) =
                       Len(nodes[nodes[q.node].parent].children) - Place(q.node)

\* C15 witness: the siblings before a text node were asked for, and an
\* earlier sibling is a text node of the same content.
C15_Witness ==
    /\ q.op = "previous_siblings"
    /\ nodes[q.node].kind = "text"
    /\ Len(q.result) = 2
    /\ nodes[q.result[2]].kind = "text"
    /\ nodes[q.result[2]].text = nodes[q.node].text
    /\ nodes[q.result[1]].kind = "element"

\* The characters that end a sequence of simple selectors in the texts of
\* ParseInputs: whitespace, the combinator signs and the comma.
Separators == Whitespace \cup {">", "+", "~", ","}

\* The text has a comma-delimited member without any character other than
\* whitespace (the empty text has one such member).
HasBlankMember(s) ==
    \E b, e \in 0..(Len(s) + 1) :
        /\ b < e
        /\ b = 0 \/ s[b] = ","
        /\ e = Len(s) + 1 \/ s[e] = ","
        /\ \A j \in (b + 1)..(e - 1) : s[j] \in Whitespace

\* C16: parse_selector_group fails, returning no group, whenever the text
\* is empty or one of its comma-delimited members holds no simple selector
\* (leading comma, adjacent commas, trailing comma with or without
\* whitespace after it).
C16_EmptyMemberIsError ==
    q.op = "from_str" =>
        /\ HasBlankMember(q.s) => q.state # "done"
        /\ q.state = "error" => q.group = <<>>

\* A type selector starts at place p of the text.
TypeStart(s, p) ==
    /\ s[p] \in WordChars
    /\ p = 1 \/ s[p - 1] \notin WordChars \cup {"#", ".", "["}

\* One sequence of simple selectors of the text holds two type selectors or
\* two ID selectors.
Doubled(s) ==
    \E p, r \in 1..Len(s) :
        /\ p < r
        /\ \A j \in p..r : s[j] \notin Separators
        /\ \/ TypeStart(s, p) /\ TypeStart(s, r)
           \/ s[p] = "#" /\ s[r] = "#"

\* C17: a text with a second type selector or a second ID selector in one
\* sequence is never parsed successfully, wherever the second one stands;
\* after a combinator a sequence may hold a tag and an ID again.
C17_OneTagOneId ==
    q.op = "from_str" =>
        /\ Doubled(q.s) => (q.state # "done" /\ q.group = <<>>)
        /\ (q.s = <<"a", ">", "a">> /\ q.state # "parsing") =>
               /\ q.state = "done"
               /\ q.group = <<<<Selector(<<"a">>, <<>>, <<>>, <<>>, "CHILD"),
                                Selector(<<"a">>, <<>>, <<>>, <<>>, "")>>>>
        /\ (q.s = <<"#", "i", ">", "#", "i">> /\ q.state # "parsing") =>
               /\ q.state = "done"
               /\ q.group = <<<<Selector(<<>>, <<>>, <<"i">>, <<>>, "CHILD"),
                                Selector(<<>>, <<>>, <<"i">>, <<>>, "")>>>>

\* C17 witness: the second ID selector came after a class selector and
\* parsing failed there.
C17_Witness ==
    /\ q.op = "from_str"
    /\ q.s = <<"#", "i", ".", "c", "#", "i">>
    /\ q.state = "error"
    /\ q.why = "multiple id selectors found"
    /\ q.cursor = 4

\* The character other than whitespace that follows place p, and the one
\* that comes before it; "" when there is none.
NextNonBlank(s, p) == At(s, RunEnd(s, p, Whitespace))

PrevNonBlank(s, p) ==
    LET J == {j \in 1..(p - 1) : s[j] \notin Whitespace}
    IN  IF J = {} THEN "" ELSE s[CHOOSE j \in J : \A l \in J : l <= j]

\* A combinator sign of the text is not followed by a simple selector, or
\* stands at the start of a selector.
Dangling(s) ==
    \E p \in 1..Len(s) :
        /\ s[p] \in {">", "+", "~"}
        /\ \/ NextNonBlank(s, p) \in {"", ",", ">", "+", "~"}
           \/ PrevNonBlank(s, p) \in {"", ","}

\* The number of sequences of simple selectors written in the text.
Segments(s) ==
    Cardinality({p \in 1..Len(s) :
                    /\ s[p] \notin Separators
                    /\ p = 1 \/ s[p - 1] \in Separators})

\* The number of sequences in the selectors of a group.
RECURSIVE Sequences(_)
Sequences(group) ==
    IF group = <<>> THEN 0 ELSE Len(Head(group)) + Sequences(Tail(group))

\* C18: a text in which `>`, `+` or `~` is not followed by a simple
\* selector (end of text, a comma) or starts a selector is never parsed
\* successfully; a parsed group has exactly one sequence for each sequence
\* of simple selectors written in the text, none without a simple selector.
C18_DanglingCombinator ==
    q.op = "from_str" =>
        /\ Dangling(q.s) => (q.state # "done" /\ q.group = <<>>)
        /\ q.state = "done" => Sequences(q.group) = Segments(q.s)

\* C18 witness: the text ended in a combinator with whitespace after it.
C18_Witness ==
    /\ q.op = "from_str"
    /\ q.s = <<"a", ">", " ">>
    /\ q.state = "error"
    /\ q.why = "unexpected end at combinator"
    /\ q.cursor = 3

\* C19: a root can only remove matches: a selector that matches a node with
\* a root also matches it without one; so every node select_all(r, selector)
\* returns is matched by the selector without a root.
C19_RootOnlyRemoves ==
    q.op = "matched_by" =>
        /\ q.result => matched_by(q.node, <<q.sel>>, None)
        /\ (/\ q.root # None
            /\ q.node \in Range(select_all(q.root, <<q.sel>>))) =>
               /\ q.result
               /\ matched_by(q.node, <<q.sel>>, None)

\* C19 witness: `A > B C` matched a node with its grandparent as root, and
\* select_all from that root returns the node.
C19_Witness ==
    /\ q.op = "matched_by"
    /\ Len(q.sel) = 3
    /\ q.sel[1].combinator = "DESCENDANT"
    /\ q.sel[1].tag # ""
    /\ q.sel[2].tag # ""
    /\ q.sel[3].tag # ""
    /\ q.root # None
    /\ q.root = Up(q.node, 2)
    /\ q.result
    /\ q.node \in Range(select_all(q.root, <<q.sel>>))
    /\ matched_by(q.node, <<q.sel>>, None)

\* The nodes without a parent: the top-level nodes of the input.
TopLevel == {n \in 1..Len(nodes) : nodes[n].parent = None}

\* C20: a build that completes returns the first top-level element; every
\* other top-level node stays on the builder stack without a parent and is
\* not reachable from the returned root, closed or not.
C20_FirstTopLevel ==
    status = "done" =>
        /\ tree = stack[1]
        /\ nodes[tree].kind = "element"
        /\ tree \in TopLevel
        /\ \A n \in TopLevel : tree <= n
        /\ \A n \in TopLevel \ {tree} :
               /\ n \in Range(stack)
               /\ n \notin Within(tree, Len(nodes))
        /\ \A i \in 2..Len(stack) :
               /\ stack[i] \in TopLevel
               /\ Within(stack[i], Len(nodes)) \cap Within(tree, Len(nodes)) = {}

\* C20 witness: after the first top-level element came a top-level text and
\* a top-level element that was never closed.
C20_Witness ==
    /\ status = "done"
    /\ Len(stack) = 3
    /\ nodes[tree].children # <<>>
    /\ nodes[stack[2]].kind = "text"
    /\ nodes[stack[3]].kind = "element"
    /\ nodes[stack[3]].partial

\* ------------------------------------------------------------------ C21..C26

\* The place on the stack of the topmost open element.
TopmostOpen == CHOOSE i \in OpenPositions : \A j \in OpenPositions : j <= i

\* C21: when an EndTag(name) event succeeds, exactly the closed nodes above
\* the topmost open element leave the stack and become the children of that
\* element in the order they were pushed, each with that element as its
\* parent; the element is closed and stays on the stack, the entries below
\* it and every other node are unchanged.
C21_EndTagAdopts ==
    [][(status = "building" /\ ev'.kind = "end" /\ status' = "building") =>
          /\ OpenPositions # {}
          /\ LET k     == TopmostOpen
                 p     == stack[k]
                 above == SubSeq(stack, k + 1, Len(stack))
             IN  /\ stack' = SubSeq(stack, 1, k)
                 /\ Len(nodes') = Len(nodes)
                 /\ nodes'[p] = [nodes[p] EXCEPT !.children = above,
                                                 !.partial = FALSE]
                 /\ \A i \in 1..Len(above) :
                        /\ ~nodes[above[i]].partial
                        /\ nodes[above[i]].parent = None
                        /\ nodes'[above[i]] =
                               [nodes[above[i]] EXCEPT !.parent = p]
                 /\ \A n \in 1..Len(nodes) :
                        n \notin Range(above) \cup {p} => nodes'[n] = nodes[n]
                 /\ tree' = tree]_vars

\* C21 witness: an end tag closed an element that stands above an open one
\* and adopted a text node and an element, in that order.
C21_Witness ==
    /\ ev.kind = "end"
    /\ status = "building"
    /\ Len(stack) >= 2
    /\ nodes[stack[1]].partial
    /\ ~nodes[Last(stack)].partial
    /\ Len(nodes[Last(stack)].children) = 2
    /\ nodes[nodes[Last(stack)].children[1]].kind = "text"
    /\ nodes[nodes[Last(stack)].children[2]].kind = "element"
    /\ nodes[Last(stack)].children[1] < nodes[Last(stack)].children[2]
    /\ \A i \in 1..2 :
           nodes[nodes[Last(stack)].children[i]].parent = Last(stack)

\* C22: a Text event handled while the stack is empty changes nothing of the
\* builder; handled while the stack is not empty it pushes one closed text
\* node without parent or children and changes nothing else, also when no
\* element on the stack is open.
C22_TextEvent ==
    [][(status = "building" /\ ev'.kind = "data") =>
          /\ status' = "building"
          /\ why' = why
          /\ tree' = tree
          /\ stack = <<>> => (nodes' = nodes /\ stack' = stack)
          /\ stack # <<>> =>
                 /\ stack' = Append(stack, Len(nodes) + 1)
                 /\ Len(nodes') = Len(nodes) + 1
                 /\ SubSeq(nodes', 1, Len(nodes)) = nodes
                 /\ nodes'[Len(nodes) + 1].kind = "text"
                 /\ nodes'[Len(nodes) + 1].text \in Texts
                 /\ nodes'[Len(nodes) + 1].tag = ""
                 /\ nodes'[Len(nodes) + 1].parent = None
                 /\ nodes'[Len(nodes) + 1].children = <<>>
                 /\ ~nodes'[Len(nodes) + 1].partial]_vars

\* C22 witness: text was pushed on a stack that held only a closed top-level
\* element.
C22_Witness ==
    /\ ev.kind = "data"
    /\ status = "building"
    /\ Len(stack) = 2
    /\ OpenPositions = {}
    /\ nodes[stack[1]].kind = "element"
    /\ nodes[stack[2]].kind = "text"
    /\ nodes[stack[2]].parent = None

\* The places of the text where a sequence of simple selectors starts.
SequenceStarts(s) ==
    {p \in 1..Len(s) :
        /\ s[p] \notin Separators
        /\ p = 1 \/ s[p - 1] \in Separators}

\* The place where the i-th sequence written in the text starts.
SequenceStart(s, i) ==
    CHOOSE p \in SequenceStarts(s) :
        Cardinality({r \in SequenceStarts(s) : r < p}) = i - 1

\* The characters of the sequence written from place p on.
Written(s, p) ==
    {s[j] : j \in {j \in p..Len(s) : \A l \in p..j : s[l] \notin Separators}}

\* A type selector is written in the sequence that starts at place p.
WrittenTag(s, p) ==
    \E j \in p..Len(s) :
        /\ \A l \in p..j : s[l] \notin Separators
        /\ TypeStart(s, j)

\* The characters other than whitespace written between the sequence that
\* starts at place p and the sequence before it.
SignsBefore(s, p) ==
    {s[j] : j \in {j \in 1..(p - 1) :
                     /\ s[j] \notin Whitespace
                     /\ \A l \in j..(p - 1) : s[l] \in Separators}}

\* What is written before the sequence that starts at place p: "" when it
\* is the first of its selector, the combinator otherwise.
WrittenCombinator(s, p) ==
    IF p = SequenceStart(s, 1) \/ "," \in SignsBefore(s, p) THEN ""
    ELSE IF SignsBefore(s, p) = {">"} THEN "CHILD"
    ELSE IF SignsBefore(s, p) = {"+"} THEN "NEXT_SIBLING"
    ELSE IF SignsBefore(s, p) = {"~"} THEN "SUBSEQUENT_SIBLING"
    ELSE IF SignsBefore(s, p) = {} THEN "DESCENDANT"
    ELSE "NONE"

\* The sequences of a group as they are written, from left to right.
LeftToRight(group) == Flatten([k \in 1..Len(group) |-> Reverse(group[k])])

\* Two type selectors with whitespace and at most one combinator sign or
\* comma between them.
TwoSequences ==
    {<<"a">> \o g \o <<"a">> :
        g \in {g \in Strings(Separators, MaxTokens - 2) :
                  /\ g # <<>>
                  /\ Cardinality({j \in 1..Len(g) : g[j] \notin Whitespace})
                         <= 1}}

\* C23: in a parsed group the sequences stand as they are written, the head
\* of each selector being its rightmost sequence; a sequence is linked to the
\* one written to its left by the combinator written between them, which is
\* the sign `>`, `+` or `~` whenever one stands in the whitespace and the
\* descendant combinator only for bare whitespace; a comma or the end of the
\* text ends the selector; a sequence has a combinator iff it has a previous
\* sequence. Two type selectors separated in any of these ways are parsed.
C23_Combinators ==
    q.op = "from_str" =>
        /\ q.state = "done" =>
               /\ Len(LeftToRight(q.group)) = Cardinality(SequenceStarts(q.s))
               /\ \A i \in 1..Len(LeftToRight(q.group)) :
                      LET seq == LeftToRight(q.group)[i]
                          p   == SequenceStart(q.s, i)
                      IN  /\ seq.combinator = WrittenCombinator(q.s, p)
                          /\ seq.tag # "" <=> WrittenTag(q.s, p)
                          /\ seq.id # <<>> <=> "#" \in Written(q.s, p)
                          /\ seq.classes # <<>> <=> "." \in Written(q.s, p)
                          /\ seq.attrs # <<>> <=> "[" \in Written(q.s, p)
               /\ \A k \in 1..Len(q.group) :
                      /\ q.group[k] # <<>>
                      /\ \A j \in 1..Len(q.group[k]) :
                             q.group[k][j].combinator # "" <=>
                                 j < Len(q.group[k])
        /\ (q.s \in TwoSequences /\ q.state # "parsing") => q.state = "done"

\* C23 witness: an ID selector written after ` >` was parsed as the child
\* of the type selector to its left.
C23_Witness ==
    /\ q.op = "from_str"
    /\ q.s = <<"a", " ", ">", "#", "i">>
    /\ q.state = "done"
    /\ q.group = <<<<Selector(<<>>, <<>>, <<"i">>, <<>>, "CHILD"),
                     Selector(<<"a">>, <<>>, <<>>, <<>>, "")>>>>

\* The sequence asks for a tag, an ID, a class or an attribute.
Requires(seq) ==
    seq.tag # "" \/ seq.id # <<>> \/ seq.classes # <<>> \/ seq.attrs # <<>>

\* The node, as the builder made it, has what a sequence of TextSequences
\* asks for.
Meets(seq, n) ==
    /\ seq.tag # "" => nodes[n].tag = seq.tag
    /\ seq.id # <<>> => <<"id", seq.id>> \in Range(nodes[n].attrs)
    /\ seq.classes # <<>> => <<"class", <<"c">>>> \in Range(nodes[n].attrs)
    /\ seq.attrs # <<>> =>
           \E i \in 1..Len(nodes[n].attrs) :
               /\ nodes[n].attrs[i][1] = "id"
               /\ nodes[n].attrs[i][2] # NoValue

\* C24: select_all with a selector whose head asks for a tag, an ID, a class
\* or an attribute returns no text node; with `*` it returns every
\* descendant, text nodes included; with `x > *` it returns, unless it
\* raises, exactly the descendants, text nodes included, whose parent has
\* what x asks for.
C24_UniversalMatchesText ==
    q.op = "select_all" =>
        LET sel == q.group[1]
            D   == Range(descendants(q.node))
        IN  /\ Range(q.result) \subseteq D
            /\ Requires(sel[1]) =>
                   \A n \in Range(q.result) : nodes[n].kind = "element"
            /\ (Len(sel) = 1 /\ ~Requires(sel[1])) => Range(q.result) = D
            /\ (/\ Len(sel) = 2
                /\ ~Requires(sel[1])
                /\ sel[1].combinator = "CHILD"
                /\ ~q.raised) =>
                   Range(q.result) = {n \in D : Meets(sel[2], nodes[n].parent)}

\* C24 witness: select_all with `#i > *` returned a text node and an
\* element.
C24_Witness ==
    /\ q.op = "select_all"
    /\ q.group = <<<<Selector(<<>>, <<>>, <<>>, <<>>, "CHILD"),
                     Selector(<<>>, <<>>, <<"i">>, <<>>, "")>>>>
    /\ \E n \in Range(q.result) : nodes[n].kind = "text"
    /\ \E n \in Range(q.result) : nodes[n].kind = "element"

\* The open element that encloses the node on top of the stack: the topmost
\* open element below it.
EnclosingPositions == OpenPositions \ {Len(stack)}

Enclosing ==
    stack[CHOOSE i \in EnclosingPositions : \A j \in EnclosingPositions : j <= i]

\* A self-closing start-end event of a tag that is not void is handled as
\* the start tag is, and pushes one open element without children.
PushedOpen ==
    (status = "building" /\ ev'.kind = "startend" /\ ~_tag_is_void(ev'.tag)) =>
        /\ \A attrs \in AttrLists :
               HandleStartEndTag(nodes, stack, ev'.tag, attrs) =
                   HandleStartTag(nodes, stack, ev'.tag, attrs)
        /\ status' = "building"
        /\ stack' = Append(stack, Len(nodes) + 1)
        /\ Len(nodes') = Len(nodes) + 1
        /\ SubSeq(nodes', 1, Len(nodes)) = nodes
        /\ nodes'[Len(nodes) + 1].kind = "element"
        /\ nodes'[Len(nodes) + 1].tag = Lower(ev'.tag)
        /\ nodes'[Len(nodes) + 1].partial
        /\ nodes'[Len(nodes) + 1].children = <<>>
        /\ nodes'[Len(nodes) + 1].parent = None

\* An open element is closed only by an end tag of its name.
ClosedByEndTagOnly ==
    \A n \in 1..Len(nodes) :
        (nodes[n].partial /\ ~nodes'[n].partial) =>
            /\ ev'.kind = "end"
            /\ Lower(ev'.tag) = nodes[n].tag
            /\ status' = "building"

\* The end tag of the enclosing element follows the self-closing event of a
\* tag that is not void.
EnclosingEndTagFollows ==
    /\ status = "building"
    /\ ev.kind = "startend"
    /\ ~_tag_is_void(ev.tag)
    /\ EnclosingPositions # {}
    /\ ev'.kind = "end"
    /\ Lower(ev'.tag) = nodes[Enclosing].tag

\* C25 as stated: a self-closing start-end event of a tag that is not void
\* is handled like a start tag, the element is pushed open and stays open
\* until an end tag of its name closes it, and the end tag of the enclosing
\* element that follows fails as a mismatch.
C25_SelfClosingStaysOpen ==
    [][/\ PushedOpen
       /\ ClosedByEndTagOnly
       /\ EnclosingEndTagFollows =>
              (status' = "error" /\ why' = "expecting end tag")]_vars

\* C25 amended: the same, the end tag of the enclosing element failing as a
\* mismatch when the enclosing element has another tag name than the
\* self-closed one; when both have the same name the end tag closes the
\* self-closed element and the enclosing element stays open.
C25_SelfClosingStaysOpenOtherName ==
    [][/\ PushedOpen
       /\ ClosedByEndTagOnly
       /\ EnclosingEndTagFollows =>
              IF nodes[Enclosing].tag # nodes[Last(stack)].tag
              THEN status' = "error" /\ why' = "expecting end tag"
              ELSE /\ status' = "building"
                   /\ ~nodes'[Last(stack)].partial
                   /\ nodes'[Enclosing].partial]_vars

\* C25 witness: `<b/>` was handled inside an open <a> and left an open
\* element <b> on top of the stack.
C25_Witness ==
    /\ ev.kind = "startend"
    /\ ev.tag = "b"
    /\ status = "building"
    /\ EnclosingPositions # {}
    /\ nodes[Enclosing].tag = "a"
    /\ nodes[Last(stack)].tag = "b"
    /\ nodes[Last(stack)].partial
    /\ nodes[Last(stack)].children = <<>>

\* The nodes below the entries of the stack.
BelowStack ==
    UNION {Within(stack[i], Len(nodes)) \ {stack[i]} : i \in 1..Len(stack)}

\* The bottom of the stack is an element, the open elements of the stack
\* have no children, and the nodes below the entries of the stack are
\* closed.
BuilderShape ==
    /\ stack # <<>> => nodes[stack[1]].kind = "element"
    /\ \A i \in 1..Len(stack) :
           nodes[stack[i]].partial => nodes[stack[i]].children = <<>>
    /\ \A n \in BelowStack : ~nodes[n].partial

\* A node that is closed stays closed.
NeverReopened ==
    \A n \in 1..Len(nodes) :
        ~nodes[n].partial => (n <= Len(nodes') /\ ~nodes'[n].partial)

\* C26: in every state of the builder the bottom entry of the stack, if
\* any, is an element and not a text node, every open element on the stack
\* has no children, every node below an entry of the stack is closed, and no
\* step reopens a closed node.
C26_BuilderInvariants == []BuilderShape /\ [][NeverReopened]_vars

\* C26 witness: the stack holds an open element, above it a closed element
\* with a child, and a text node on top.
C26_Witness ==
    /\ status = "building"
    /\ Len(stack) = 3
    /\ nodes[stack[1]].partial
    /\ ~nodes[stack[2]].partial
    /\ nodes[stack[2]].children # <<>>
    /\ nodes[stack[3]].kind = "text"
    /\ BelowStack # {}

====
